---- MODULE Spec2Model ----
(***************************************************************************)
(* A model of librapid's Array value: shared-ownership storage with an     *)
(* external reference counter, reference copy / assignment / subscript,    *)
(* scalar assignment, and the unary / binary element-wise dispatchers.     *)
(*                                                                         *)
(* Two revisions of multiarray.hpp are modelled side by side:              *)
(*   LEGACY/src/librapid/array/multiarray.hpp  (names prefixed Legacy      *)
(*                                              where the two differ)      *)
(*   src/librapid/array/multiarray.hpp         (names prefixed Core)       *)
(***************************************************************************)
EXTENDS Integers, Sequences, FiniteSets, TLC

\* ----------------------------------------------------------------- bounds
MaxArrays == 3
MaxStores == 3
MaxVal == 1
MaxCalls == 2
LaneBits == 1
PacketLanes == 2
MapLen == 3

\* ------------------------------------------------------- program constants
\* m_references == nullptr: the Array names no storage
NullRef == 0

Handles == 1..MaxArrays
StoreIds == 1..MaxStores
Values == 1..MaxVal
\* content of memory that was allocated but never written (indeterminate):
\* a value apart from every value the operations store
Undef == MaxVal + 1
Cells == Values \cup {Undef}

\* enum Accelerator, ordered CPU < GPU; enum Datatype ordered by ordinal
Accelerators == {"CPU", "GPU"}
AccelOrd(l) == IF l = "GPU" THEN 2 ELSE 1
Datatypes == {"INT64", "FLOAT32", "FLOAT64"}
DtypeOrd(d) == IF d = "FLOAT64" THEN 6 ELSE IF d = "FLOAT32" THEN 5 ELSE 4

\* shapes the constructors are called with
ExtentInputs == {<<2>>, <<1, 2>>}

\* seeds are uint64_t, kept here at SeedBits bits; a seed argument of -1
\* arrives as the largest value
SeedBits == 3
Unsigned(x) == x % (2 ^ SeedBits)

\* the instantiations fillRandom<T> is called with
RandomTypes == {"double", "int64_t"}

\* the function-local statics of one instantiation of fillRandom, as
\* initialised: statSeed = 0, prevSeed = -1, statSeedSet = false
NoSeed == [statSeed |-> 0, prevSeed |-> Unsigned(-1), statSeedSet |-> FALSE]

NoSeeds == [T \in RandomTypes |-> NoSeed]

\* the threads of the OpenMP team that runs the parallel loop of mapKernel
MaxWorkers == 2
Workers == 1..MaxWorkers

\* mapKernel outside a call: no pack, no piece of the index range left or
\* held by a thread
NoLoop ==
    [phase |-> "idle", pack |-> <<>>, todo |-> {}, held |-> [w \in Workers |-> <<>>],
     vals |-> [w \in Workers |-> <<>>], visits |-> <<>>, before |-> <<>>]

\* no kernel launched yet: no grid, no block run, no index stored to
NoLaunch ==
    [n |-> 0, threads |-> 0, blocks |-> 0, ran |-> {}, written |-> {}, count |-> 0]

\* the GPU state of the process
\* the element types, the kernels and the pack sizes (sources and
\* destination) mapKernel is instantiated with on the GPU
KernelTypes == {"float", "double"}
KernelNames == {"add", "mul"}
PackSizes == {2, 17, 18, 34}

\* one instantiation of the body of mapKernel, and the kernel source it
\* assembles: the name and text of the kernel and one argument per source
Instantiations == [kernel : KernelNames, pack : PackSizes, type : KernelTypes]
SourceOf(i) == <<i.kernel, i.pack - 1>>
SourceTexts == {SourceOf(i) : i \in Instantiations}

\* maxPointers as initialised
PointerRoom == 16

\* the function-local statics of one instantiation: gpuPointers (the
\* capacity of the region it points to, 0 for nullptr), maxPointers and
\* kernelCache (the sources it holds a program for)
NoScratch == [gpuPointers |-> 0, maxPointers |-> PointerRoom, kernelCache |-> {}]

\* the process before any GPU work: no stream, nothing compiled, nothing
\* copied
NoGpu ==
    [streamCreated |-> FALSE, created |-> 0,
     inst |-> [i \in Instantiations |-> NoScratch],
     compiled |-> [s \in SourceTexts |-> 0], copied |-> 0, room |-> 0]

\* no ValueReference: an element of value 0, a block with no bit set, no
\* bit referred to
NoRef == [value |-> 0, block |-> {}, bit |-> -1, was |-> {}]

\* a double is modelled as a decimal m * 10^e; zero has one representation
Zero == [m |-> 0, e |-> 0]

\* no call of roundSigFig is running
NoSig == [pc |-> "idle", num |-> Zero, figs |-> 0, tmp |-> Zero, n |-> 0, result |-> Zero]

VARIABLES arrays, stores, last, prev, pc, hasCuda, calls, statics, clock,
          isPython, kern, launch, gpu, ref, sig

\* the state of the parts of the library that the Array operations above
\* them leave alone: the build (LIBRAPID_PYTHON) and the loop of mapKernel
aux == <<isPython, kern, launch, gpu, ref, sig>>

vars == <<arrays, stores, last, prev, pc, hasCuda, calls, statics, clock, aux>>

AuxInit ==
    /\ isPython = FALSE
    /\ kern = NoLoop
    /\ launch = NoLaunch
    /\ gpu = NoGpu
    /\ ref = NoRef
    /\ sig = NoSig

\* ------------------------------------------------------- shape arithmetic
RECURSIVE Prod(_)
Prod(e) == IF e = <<>> THEN 1 ELSE Head(e) * Prod(Tail(e))

\* Extent::size()
ExtentSize(e) == Prod(e)

\* Stride::fromExtent, row major
RECURSIVE FromExtent(_)
FromExtent(e) == IF e = <<>> THEN <<>> ELSE <<Prod(Tail(e))>> \o FromExtent(Tail(e))

\* element offset of flat logical index k (row major over extent e) under
\* the strides s: sum of i_k * stride_k
RECURSIVE Offset(_, _, _)
Offset(e, s, k) ==
    IF e = <<>> \/ s = <<>> THEN 0
    ELSE (k \div Prod(Tail(e))) * Head(s) + Offset(Tail(e), Tail(s), k % Prod(Tail(e)))

\* address in the storage of logical element k of the view a
Addr(a, k) == a.start + Offset(a.extent, a.stride, k)

\* ------------------------------------------------------------ Array value
\* an Array object that does not exist (not constructed, or destroyed)
NoArray ==
    [live |-> FALSE, ref |-> NullRef, start |-> 0, extent |-> <<>>, stride |-> <<>>,
     trivial |-> TRUE, contiguous |-> TRUE, isScalar |-> FALSE, isChild |-> FALSE,
     dtype |-> "NONE", location |-> "CPU"]

\* Array::Array(): the member initialisers of the class
DefaultArray == [NoArray EXCEPT !.live = TRUE]

NoStore ==
    [status |-> "unused", refs |-> 0, frees |-> 0, data |-> <<>>,
     dtype |-> "NONE", location |-> "CPU"]

\* the record of the operation that ran last: its name, the Array it was
\* called on (or constructed, or stored into), its arguments a and b, the
\* permitInvalid flag p, the branch it took and whether it returned (ok) or
\* threw
NoOp == [op |-> "none", h |-> 0, a |-> 0, b |-> 0, p |-> FALSE, kind |-> "", ok |-> TRUE]

\* prev is Off where the operation before the last one is not recorded
Off == [op |-> "off", h |-> 0, a |-> 0, b |-> 0, p |-> FALSE, kind |-> "", ok |-> TRUE]

Op(name, h, a, kind, ok) ==
    [op |-> name, h |-> h, a |-> a, b |-> 0, p |-> FALSE, kind |-> kind, ok |-> ok]

\* the record of an element-wise operation
ElementOp(name, h, a, b, p, kind, ok) ==
    [op |-> name, h |-> h, a |-> a, b |-> b, p |-> p, kind |-> kind, ok |-> ok]

Record(o) ==
    /\ last' = o
    /\ prev' = IF prev = Off THEN Off ELSE last

Unused == {s \in StoreIds : stores[s].status = "unused"}

\* the storage the next allocation returns
FreshStore == CHOOSE s \in Unused : \A t \in Unused : s <= t

\* the slot a newly constructed Array object takes (objects are interchangeable)
Dead == {h \in Handles : ~arrays[h].live}

FreshHandle == CHOOSE h \in Dead : \A g \in Dead : h <= g

\* live Arrays whose m_references is the counter of storage s
NamedBy(s) == {h \in Handles : arrays[h].live /\ arrays[h].ref = s}

\* ------------------------------------------------------ reference counting
\* Array::increment on the storage table st, for an Array naming r
incrementNoCount(st, r) == st

increment(st, r) ==
    IF r = NullRef THEN st
    ELSE [st EXCEPT ![r].refs = @ + 1]

\* Array::decrement, run by one thread without interruption: the counter is
\* decremented, and at zero the data is freed and the counter deleted
decrementOffByOne(st, r) ==
    IF r = NullRef THEN st
    ELSE IF st[r].refs - 1 <= 1
         THEN [st EXCEPT ![r].refs = 0, ![r].status = "freed", ![r].frees = @ + 1, ![r].data = <<>>]
         ELSE [st EXCEPT ![r].refs = @ - 1]

decrementNoFree(st, r) ==
    IF r = NullRef THEN st
    ELSE [st EXCEPT ![r].refs = @ - 1]

decrement(st, r) ==
    IF r = NullRef THEN st
    ELSE IF st[r].refs - 1 = 0
         THEN [st EXCEPT ![r].refs = 0, ![r].status = "freed", ![r].frees = @ + 1, ![r].data = <<>>]
         ELSE [st EXCEPT ![r].refs = @ - 1]

\* Array::constructNew: a fresh storage of ExtentSize(e) elements with a
\* counter of 1, and the fields of the Array that owns it
NewStore(e, dt, loc) ==
    [status |-> "live", refs |-> 1, frees |-> 0,
     data |-> [i \in 1..ExtentSize(e) |-> Undef], dtype |-> dt, location |-> loc]

constructNew(a, s, e, dt, loc) ==
    [a EXCEPT !.live = TRUE, !.ref = s, !.start = 0, !.extent = e,
              !.stride = FromExtent(e), !.trivial = TRUE, !.contiguous = TRUE,
              !.dtype = dt, !.location = loc]

\* a read / a write of logical element k through the view a
ReadAt(st, a, k) == st[a.ref].data[Addr(a, k) + 1]

WriteAt(st, a, k, v) == [st EXCEPT ![a.ref].data[Addr(a, k) + 1] = v]

\* ------------------------------------------------------------------ Init
Init ==
    /\ arrays = [h \in Handles |-> NoArray]
    /\ stores = [s \in StoreIds |-> NoStore]
    /\ last = NoOp
    /\ prev = Off
    /\ pc = [h \in Handles |-> "idle"]
    /\ hasCuda = FALSE
    /\ calls = 0
    /\ statics = NoSeeds
    /\ clock = 1
    /\ AuxInit

\* ----------------------------------------------------------- constructors
\* Array::Array()
ConstructDefault(h) ==
    /\ Dead # {} /\ h = FreshHandle
    /\ arrays' = [arrays EXCEPT ![h] = DefaultArray]
    /\ Record(Op("ConstructDefault", h, 0, "", TRUE))
    /\ UNCHANGED <<stores, pc, hasCuda, statics, clock, calls, aux>>

\* Array::Array(const Extent &, Datatype, Accelerator)
ConstructExtent(h, e, dt, loc) ==
    /\ Dead # {} /\ h = FreshHandle
    /\ Unused # {}
    /\ IF loc = "GPU" /\ ~hasCuda
       THEN /\ Record(Op("ConstructExtent", h, 0, "", FALSE))
            /\ UNCHANGED <<arrays, stores>>
       ELSE /\ stores' = [stores EXCEPT ![FreshStore] = NewStore(e, dt, loc)]
            /\ arrays' = [arrays EXCEPT ![h] = constructNew(DefaultArray, FreshStore, e, dt, loc)]
            /\ Record(Op("ConstructExtent", h, 0, "", TRUE))
    /\ UNCHANGED <<pc, hasCuda, statics, clock, calls, aux>>

\* Array::Array(T val, Datatype dtype, Accelerator locn), T integral
ConstructScalar(h, v, dt, loc) ==
    /\ Dead # {} /\ h = FreshHandle
    /\ Unused # {}
    /\ IF loc = "GPU" /\ ~hasCuda
       THEN /\ Record(Op("ConstructScalar", h, 0, "", FALSE))
            /\ UNCHANGED <<arrays, stores>>
       ELSE LET a1 == constructNew(DefaultArray, FreshStore, <<1>>, dt, loc)
                a2 == [a1 EXCEPT !.isScalar = TRUE]
                st == [stores EXCEPT ![FreshStore] = NewStore(<<1>>, dt, loc)]
            IN  /\ stores' = WriteAt(st, a2, 0, v)
                /\ arrays' = [arrays EXCEPT ![h] = a2]
                /\ Record(Op("ConstructScalar", h, 0, "", TRUE))
    /\ UNCHANGED <<pc, hasCuda, statics, clock, calls, aux>>

\* the fields a reference copy takes from its source
ReferenceCopy(o) == [o EXCEPT !.live = TRUE]

\* Array::Array(const Array &other) with the default dtype and locn
CopyConstruct(h, o) ==
    /\ Dead # {} /\ h = FreshHandle
    /\ arrays[o].live
    /\ IF arrays[o].ref = NullRef
       THEN /\ arrays' = [arrays EXCEPT ![h] = DefaultArray]
            /\ UNCHANGED stores
       ELSE /\ arrays' = [arrays EXCEPT ![h] = ReferenceCopy(arrays[o])]
            /\ stores' = increment(stores, arrays[o].ref)
    /\ Record(Op("CopyConstruct", h, o, "", TRUE))
    /\ UNCHANGED <<pc, hasCuda, statics, clock, calls, aux>>

\* Array::subscript(index): a view of the parent's storage without the
\* leading dimension; a subscript of a one-dimensional Array is a scalar
SubscriptView(p, i) ==
    IF Len(p.extent) = 1
    THEN [p EXCEPT !.start = p.start + i * p.stride[1], !.extent = <<1>>,
                   !.stride = <<1>>, !.trivial = TRUE, !.contiguous = TRUE,
                   !.isScalar = TRUE, !.isChild = TRUE]
    ELSE [p EXCEPT !.start = p.start + i * p.stride[1], !.extent = Tail(p.extent),
                   !.stride = Tail(p.stride),
                   !.trivial = (Tail(p.stride) = FromExtent(Tail(p.extent))),
                   !.contiguous = (Tail(p.stride) = FromExtent(Tail(p.extent))),
                   !.isScalar = FALSE, !.isChild = TRUE]

Subscript(h, p, i) ==
    /\ Dead # {} /\ h = FreshHandle
    /\ arrays[p].live
    /\ arrays[p].ref # NullRef
    /\ ~arrays[p].isScalar
    /\ IF i < 0 \/ i >= arrays[p].extent[1]
       THEN /\ Record(Op("Subscript", h, p, "", FALSE))
            /\ UNCHANGED <<arrays, stores>>
       ELSE /\ arrays' = [arrays EXCEPT ![h] = SubscriptView(arrays[p], i)]
            /\ stores' = increment(stores, arrays[p].ref)
            /\ Record(Op("Subscript", h, p, "", TRUE))
    /\ UNCHANGED <<pc, hasCuda, statics, clock, calls, aux>>

\* the in-place copy of every logical element of the view src into the
\* view dst, element by element
RECURSIVE CopyElems(_, _, _, _)
CopyElems(st, dst, src, n) ==
    IF n = 0 THEN st
    ELSE LET done == CopyElems(st, dst, src, n - 1)
         IN  WriteAt(done, dst, n - 1, ReadAt(done, src, n - 1))

\* operator=(const Array &) on a child of matching extent: the data of
\* other is copied into the child's window of the parent's storage
AssignChildNoCopy(st, x, o) == st

AssignChild(st, x, o) == CopyElems(st, x, o, ExtentSize(x.extent))

\* the rebinding done by operator=(const Array &) on an independent
\* left-hand side: release the current reference, share other's storage
Rebind(st, x, o) == increment(decrement(st, x.ref), o.ref)

\* the Array an independent left-hand side becomes
ReboundByValue(x, o) == [ReferenceCopy(o) EXCEPT !.ref = x.ref]

Rebound(x, o) == ReferenceCopy(o)

\* Array::operator=(const Array &other); a and b are distinct objects and
\* other is initialised
Assign(a, b) ==
    /\ a # b
    /\ arrays[a].live /\ arrays[b].live
    /\ arrays[b].ref # NullRef
    /\ LET x == arrays[a]
           o == arrays[b]
       IN  IF x.ref = NullRef
           THEN /\ arrays' = [arrays EXCEPT ![a] = ReferenceCopy(o)]
                /\ stores' = increment(stores, o.ref)
                /\ Record(Op("Assign", a, b, "init", TRUE))
           ELSE IF x.isChild
           THEN IF x.extent # o.extent
                THEN /\ Record(Op("Assign", a, b, "child", FALSE))
                     /\ UNCHANGED <<arrays, stores>>
                ELSE /\ stores' = AssignChild(stores, x, o)
                     /\ Record(Op("Assign", a, b, "child", TRUE))
                     /\ UNCHANGED arrays
           ELSE /\ stores' = Rebind(stores, x, o)
                /\ arrays' = [arrays EXCEPT ![a] = Rebound(x, o)]
                /\ Record(Op("Assign", a, b, "rebind", TRUE))
    /\ UNCHANGED <<pc, hasCuda, statics, clock, calls, aux>>

\* Array::operator=(T val), T integral
AssignScalarUnguarded(a, v) ==
    /\ arrays[a].live
    /\ (~arrays[a].isChild) => Unused # {}
    /\ LET x == arrays[a]
           st1 == IF x.isChild THEN stores
                  ELSE [decrement(stores, x.ref) EXCEPT
                            ![FreshStore] = NewStore(<<1>>, "INT64", "CPU")]
           x1 == IF x.isChild THEN x
                 ELSE constructNew(x, FreshStore, <<1>>, "INT64", "CPU")
       IN  /\ stores' = WriteAt(st1, x1, 0, v)
           /\ arrays' = [arrays EXCEPT ![a] = [x1 EXCEPT !.isScalar = TRUE]]
           /\ Record(Op("AssignScalar", a, v, "", TRUE))
    /\ UNCHANGED <<pc, hasCuda, statics, clock, calls, aux>>

AssignScalar(a, v) ==
    /\ arrays[a].live
    /\ (~arrays[a].isChild) => Unused # {}
    /\ LET x == arrays[a]
       IN  IF x.isChild /\ ~x.isScalar
           THEN /\ Record(Op("AssignScalar", a, v, "", FALSE))
                /\ UNCHANGED <<arrays, stores>>
           ELSE LET st1 == IF x.isChild THEN stores
                           ELSE [decrement(stores, x.ref) EXCEPT
                                     ![FreshStore] = NewStore(<<1>>, "INT64", "CPU")]
                    x1 == IF x.isChild THEN x
                          ELSE constructNew(x, FreshStore, <<1>>, "INT64", "CPU")
                IN  /\ stores' = WriteAt(st1, x1, 0, v)
                    /\ arrays' = [arrays EXCEPT ![a] = [x1 EXCEPT !.isScalar = TRUE]]
                    /\ Record(Op("AssignScalar", a, v, "", TRUE))
    /\ UNCHANGED <<pc, hasCuda, statics, clock, calls, aux>>

\* Array::~Array()
Destroy(h) ==
    /\ arrays[h].live
    /\ stores' = decrement(stores, arrays[h].ref)
    /\ arrays' = [arrays EXCEPT ![h] = NoArray]
    /\ Record(Op("Destroy", h, 0, "", TRUE))
    /\ UNCHANGED <<pc, hasCuda, statics, clock, calls, aux>>

\* ------------------------------------------------ element-wise operations
\* the functors handed to the dispatchers: a reflection and an addition on
\* Values; an indeterminate operand gives an indeterminate result
OpUnary(v) == IF v = Undef THEN Undef ELSE MaxVal + 1 - v

OpBinary(x, y) == IF x = Undef \/ y = Undef THEN Undef ELSE ((x + y - 1) % MaxVal) + 1

\* max(Accelerator, Accelerator) and max(Datatype, Datatype)
MaxLocation(x, y) == IF AccelOrd(x) >= AccelOrd(y) THEN x ELSE y

MaxDatatypeFirst(x, y) == x

MaxDatatype(x, y) == IF DtypeOrd(x) >= DtypeOrd(y) THEN x ELSE y

\* m_stride.isTrivial() && m_stride.isContiguous()
Plain(x) == x.trivial /\ x.contiguous

\* dst.m_stride = src.m_stride
TakeStride(x, y) ==
    [x EXCEPT !.stride = y.stride, !.trivial = y.trivial, !.contiguous = y.contiguous]

\* the addresses a kernel visits in the storage of the view x for n
\* elements: one after the other from the view's start (linear), or through
\* the strides of x over the coordinates of the extent e; a scalar operand
\* (fixed) stays on its one element
Walk(x, e, n, linear, fixed) ==
    [k \in 1..n |-> x.start + (IF fixed THEN 0
                                ELSE IF linear THEN k - 1
                                ELSE Offset(e, x.stride, k - 1))]

\* the walk W stays inside the live storage the view x names
Inside(st, x, W) ==
    /\ x.ref # NullRef
    /\ st[x.ref].status = "live"
    /\ \A k \in DOMAIN W : W[k] < Len(st[x.ref].data)

\* the strided walk of x over e reads one stride per dimension of e
Ranked(x, e, linear, fixed) == linear \/ fixed \/ Len(x.stride) = Len(e)

\* imp::multiarrayUnaryOpTrivial / Complex: dst[D[k]] = op(src[S[k]]) for
\* k = 1..n in order; an access outside a storage is skipped here and
\* reported by the caller as undefined behaviour
RECURSIVE multiarrayUnaryOp(_, _, _, _, _, _)
multiarrayUnaryOp(st, rd, rs, D, S, n) ==
    IF n = 0 THEN st
    ELSE LET done == multiarrayUnaryOp(st, rd, rs, D, S, n - 1)
         IN  IF D[n] < Len(done[rd].data) /\ S[n] < Len(done[rs].data)
             THEN [done EXCEPT ![rd].data[D[n] + 1] = OpUnary(done[rs].data[S[n] + 1])]
             ELSE done

\* imp::multiarrayBinaryOpTrivial / Complex: dst[D[k]] = op(a[A[k]], b[B[k]])
RECURSIVE multiarrayBinaryOp(_, _, _, _, _, _, _, _)
multiarrayBinaryOp(st, rd, ra, rb, D, A, B, n) ==
    IF n = 0 THEN st
    ELSE LET done == multiarrayBinaryOp(st, rd, ra, rb, D, A, B, n - 1)
         IN  IF /\ D[n] < Len(done[rd].data)
                /\ A[n] < Len(done[ra].data)
                /\ B[n] < Len(done[rb].data)
             THEN [done EXCEPT ![rd].data[D[n] + 1] =
                       OpBinary(done[ra].data[A[n] + 1], done[rb].data[B[n] + 1])]
             ELSE done

\* the operation throws std::invalid_argument before it touches anything
Throw(o, kind) ==
    /\ Record([o EXCEPT !.kind = kind, !.ok = FALSE])
    /\ UNCHANGED <<arrays, stores>>

\* the operation runs its kernel. With every access inside the storages it
\* returns with the storages st2 and the Arrays arr2; an access outside a
\* storage is undefined behaviour: the call may stop the program there or
\* return with the accesses that fell inside done
Finish(o, safe, st2, arr2) ==
    \E crash \in (IF safe THEN {FALSE} ELSE BOOLEAN) :
        IF crash
        THEN /\ Record([o EXCEPT !.kind = "ub", !.ok = FALSE])
             /\ UNCHANGED <<arrays, stores>>
        ELSE /\ stores' = st2
             /\ arrays' = arr2
             /\ Record([o EXCEPT !.kind = IF safe THEN "ok" ELSE "ub"])

\* LEGACY: static void Array::applyUnaryOp(Array &dst, const Array &src,
\* operation, permitInvalid, dstOffset = 0)
LegacyApplyUnaryOp(dst, src, permitInvalid) ==
    /\ calls < MaxCalls
    /\ arrays[dst].live /\ arrays[src].live
    /\ arrays[src].ref # NullRef
    /\ LET d == arrays[dst]
           s == arrays[src]
           o == ElementOp("LegacyApplyUnaryOp", dst, src, 0, permitInvalid, "ok", TRUE)
           n == ExtentSize(s.extent)
           linear == ~permitInvalid /\ Plain(d) /\ Plain(s)
           D == Walk(d, s.extent, n, linear, FALSE)
           S == Walk(s, s.extent, n, linear, FALSE)
           safe == /\ Inside(stores, d, D) /\ Inside(stores, s, S)
                   /\ Ranked(d, s.extent, linear, FALSE)
                   /\ Ranked(s, s.extent, linear, FALSE)
       IN  IF ~permitInvalid /\ (d.ref = NullRef \/ d.extent # s.extent)
           THEN Throw(o, "dest")
           ELSE Finish(o, safe,
                       IF d.ref = NullRef THEN stores
                       ELSE multiarrayUnaryOp(stores, d.ref, s.ref, D, S, n),
                       [arrays EXCEPT ![dst].isScalar = s.isScalar])
    /\ calls' = calls + 1
    /\ UNCHANGED <<pc, hasCuda, statics, clock, aux>>

\* LEGACY: static Array Array::applyUnaryOp(Array &src, operation)
LegacyApplyUnaryOpReturning(h, src) ==
    /\ calls < MaxCalls
    /\ Dead # {} /\ h = FreshHandle
    /\ Unused # {}
    /\ arrays[src].live
    /\ LET s == arrays[src]
           o == ElementOp("LegacyApplyUnaryOpReturning", h, src, 0, FALSE, "ok", TRUE)
           d == constructNew(DefaultArray, FreshStore, s.extent, s.dtype, s.location)
           st == [stores EXCEPT ![FreshStore] = NewStore(s.extent, s.dtype, s.location)]
           n == ExtentSize(s.extent)
           linear == Plain(s)
           D == Walk(d, d.extent, n, linear, FALSE)
           S == Walk(s, d.extent, n, linear, FALSE)
           safe == /\ Inside(st, d, D) /\ Inside(st, s, S)
                   /\ Ranked(s, d.extent, linear, FALSE)
       IN  IF s.ref = NullRef
           THEN Throw(o, "uninitialized")
           ELSE Finish(o, safe,
                       multiarrayUnaryOp(st, d.ref, s.ref, D, S, n),
                       [arrays EXCEPT ![h] = [d EXCEPT !.isScalar = s.isScalar]])
    /\ calls' = calls + 1
    /\ UNCHANGED <<pc, hasCuda, statics, clock, aux>>

\* LEGACY: static void Array::applyBinaryOp(Array &dst, const Array &srcA,
\* const Array &srcB, operation, permitInvalid, permitVectorize)
LegacyApplyBinaryOp(dst, srcA, srcB, permitInvalid) ==
    /\ calls < MaxCalls
    /\ arrays[dst].live /\ arrays[srcA].live /\ arrays[srcB].live
    /\ arrays[srcA].ref # NullRef /\ arrays[srcB].ref # NullRef
    /\ LET d == arrays[dst]
           a == arrays[srcA]
           b == arrays[srcB]
           o == ElementOp("LegacyApplyBinaryOp", dst, srcA, srcB, permitInvalid, "ok", TRUE)
           n == ExtentSize(d.extent)
           linear == (Plain(a) /\ Plain(b)) \/ a.stride = b.stride
           D == Walk(d, d.extent, n, linear, FALSE)
           A == Walk(a, d.extent, n, linear, a.isScalar)
           B == Walk(b, d.extent, n, linear, b.isScalar)
           safe == /\ Inside(stores, d, D) /\ Inside(stores, a, A) /\ Inside(stores, b, B)
                   /\ Ranked(d, d.extent, linear, FALSE)
                   /\ Ranked(a, d.extent, linear, a.isScalar)
                   /\ Ranked(b, d.extent, linear, b.isScalar)
           d1 == IF linear THEN TakeStride(d, IF a.isScalar THEN b ELSE a) ELSE d
           d2 == IF a.isScalar /\ b.isScalar THEN [d1 EXCEPT !.isScalar = TRUE] ELSE d1
       IN  IF ~permitInvalid /\ (~a.isScalar /\ ~b.isScalar /\ a.extent # b.extent)
           THEN Throw(o, "shape")
           ELSE IF ~permitInvalid /\ (d.ref = NullRef \/ d.extent # a.extent)
           THEN Throw(o, "dest")
           ELSE Finish(o, safe,
                       IF d.ref = NullRef THEN stores
                       ELSE multiarrayBinaryOp(stores, d.ref, a.ref, b.ref, D, A, B, n),
                       [arrays EXCEPT ![dst] = d2])
    /\ calls' = calls + 1
    /\ UNCHANGED <<pc, hasCuda, statics, clock, aux>>

\* LEGACY: static Array Array::applyBinaryOp(const Array &srcA,
\* const Array &srcB, operation, permitInvalid, permitVectorize)
LegacyApplyBinaryOpReturning(h, srcA, srcB, permitInvalid) ==
    /\ calls < MaxCalls
    /\ Dead # {} /\ h = FreshHandle
    /\ Unused # {}
    /\ arrays[srcA].live /\ arrays[srcB].live
    /\ arrays[srcA].ref # NullRef /\ arrays[srcB].ref # NullRef
    /\ LET a == arrays[srcA]
           b == arrays[srcB]
           o == ElementOp("LegacyApplyBinaryOpReturning", h, srcA, srcB, permitInvalid, "ok", TRUE)
           newLoc == MaxLocation(a.location, b.location)
           newType == MaxDatatype(a.dtype, b.dtype)
           e == IF a.isScalar THEN b.extent ELSE a.extent
           d == constructNew(DefaultArray, FreshStore, e, newType, newLoc)
           st == [stores EXCEPT ![FreshStore] = NewStore(e, newType, newLoc)]
           n == ExtentSize(d.extent)
           linear == (Plain(a) /\ Plain(b)) \/ a.stride = b.stride
           D == Walk(d, d.extent, n, linear, FALSE)
           A == Walk(a, d.extent, n, linear, a.isScalar)
           B == Walk(b, d.extent, n, linear, b.isScalar)
           safe == /\ Inside(st, d, D) /\ Inside(st, a, A) /\ Inside(st, b, B)
                   /\ Ranked(a, d.extent, linear, a.isScalar)
                   /\ Ranked(b, d.extent, linear, b.isScalar)
           d1 == IF linear THEN TakeStride(d, IF a.isScalar THEN b ELSE a) ELSE d
           d2 == IF a.isScalar /\ b.isScalar THEN [d1 EXCEPT !.isScalar = TRUE] ELSE d1
       IN  IF ~permitInvalid /\ ~(a.isScalar \/ b.isScalar) /\ a.extent # b.extent
           THEN Throw(o, "shape")
           ELSE Finish(o, safe,
                       multiarrayBinaryOp(st, d.ref, a.ref, b.ref, D, A, B, n),
                       [arrays EXCEPT ![h] = d2])
    /\ calls' = calls + 1
    /\ UNCHANGED <<pc, hasCuda, statics, clock, aux>>

\* src: static void Array::applyBinaryOp(const Array &a, const Array &b,
\* Array &res, operation)
CoreApplyBinaryOp(srcA, srcB, res) ==
    /\ calls < MaxCalls
    /\ arrays[res].live /\ arrays[srcA].live /\ arrays[srcB].live
    /\ arrays[srcA].ref # NullRef /\ arrays[srcB].ref # NullRef
    /\ LET d == arrays[res]
           a == arrays[srcA]
           b == arrays[srcB]
           o == ElementOp("CoreApplyBinaryOp", res, srcA, srcB, FALSE, "ok", TRUE)
           n == ExtentSize(a.extent)
           linear == (Plain(a) /\ Plain(b)) \/ a.stride = b.stride
           D == Walk(d, a.extent, n, linear, FALSE)
           A == Walk(a, a.extent, n, linear, a.isScalar)
           B == Walk(b, a.extent, n, linear, b.isScalar)
           safe == /\ Inside(stores, d, D) /\ Inside(stores, a, A) /\ Inside(stores, b, B)
                   /\ Ranked(d, a.extent, linear, FALSE)
                   /\ Ranked(a, a.extent, linear, a.isScalar)
                   /\ Ranked(b, a.extent, linear, b.isScalar)
           d1 == IF linear THEN TakeStride(d, a) ELSE d
           d2 == IF a.isScalar /\ b.isScalar THEN [d1 EXCEPT !.isScalar = TRUE] ELSE d1
       IN  IF a.extent # b.extent
           THEN Throw(o, "shape")
           ELSE IF d.ref = NullRef \/ d.extent # a.extent
           THEN Throw(o, "dest")
           ELSE Finish(o, safe,
                       multiarrayBinaryOp(stores, d.ref, a.ref, b.ref, D, A, B, n),
                       [arrays EXCEPT ![res] = d2])
    /\ calls' = calls + 1
    /\ UNCHANGED <<pc, hasCuda, statics, clock, aux>>

\* src: static Array Array::applyBinaryOp(const Array &a, const Array &b,
\* operation)
CoreApplyBinaryOpReturning(h, srcA, srcB) ==
    /\ calls < MaxCalls
    /\ Dead # {} /\ h = FreshHandle
    /\ Unused # {}
    /\ arrays[srcA].live /\ arrays[srcB].live
    /\ arrays[srcA].ref # NullRef /\ arrays[srcB].ref # NullRef
    /\ LET a == arrays[srcA]
           b == arrays[srcB]
           o == ElementOp("CoreApplyBinaryOpReturning", h, srcA, srcB, FALSE, "ok", TRUE)
           newLoc == MaxLocation(a.location, b.location)
           newType == MaxDatatype(a.dtype, b.dtype)
           d == constructNew(DefaultArray, FreshStore, a.extent, newType, newLoc)
           st == [stores EXCEPT ![FreshStore] = NewStore(a.extent, newType, newLoc)]
           n == ExtentSize(a.extent)
           linear == (Plain(a) /\ Plain(b)) \/ a.stride = b.stride
           D == Walk(d, a.extent, n, linear, FALSE)
           A == Walk(a, a.extent, n, linear, a.isScalar)
           B == Walk(b, a.extent, n, linear, b.isScalar)
           safe == /\ Inside(st, d, D) /\ Inside(st, a, A) /\ Inside(st, b, B)
                   /\ Ranked(a, a.extent, linear, a.isScalar)
                   /\ Ranked(b, a.extent, linear, b.isScalar)
           d1 == IF linear THEN TakeStride(d, a) ELSE d
           d2 == IF a.isScalar /\ b.isScalar THEN [d1 EXCEPT !.isScalar = TRUE] ELSE d1
       IN  IF ~(a.isScalar \/ b.isScalar) /\ a.extent # b.extent
           THEN Throw(o, "shape")
           ELSE Finish(o, safe,
                       multiarrayBinaryOp(st, d.ref, a.ref, b.ref, D, A, B, n),
                       [arrays EXCEPT ![h] = d2])
    /\ calls' = calls + 1
    /\ UNCHANGED <<pc, hasCuda, statics, clock, aux>>

\* mapping::extractAndCheckExtent over the operands of an expression node,
\* each given as <<IsScalar, extent>>: the extent of the first operand that
\* is not scalar; <<>> stands for a node of scalars only, and "assert" for
\* the failed LR_ASSERT on two array operands of different extents
RECURSIVE extractAndCheckExtent(_)
extractAndCheckExtent(args) ==
    IF Len(args) = 1
    THEN IF Head(args)[1] THEN <<>> ELSE Head(args)[2]
    ELSE IF Head(args)[1] THEN extractAndCheckExtent(Tail(args))
    ELSE IF \A i \in DOMAIN Tail(args) : Tail(args)[i][1] THEN Head(args)[2]
    ELSE IF Head(args)[2] = extractAndCheckExtent(Tail(args)) THEN Head(args)[2]
    ELSE "assert"

Next ==
    \/ \E h \in Handles : ConstructDefault(h)
    \/ \E h \in Handles, e \in ExtentInputs : ConstructExtent(h, e, "INT64", "CPU")
    \/ \E h \in Handles, v \in Values : ConstructScalar(h, v, "INT64", "CPU")
    \/ \E h, o \in Handles : CopyConstruct(h, o)
    \/ \E h, p \in Handles, i \in 0..1 : Subscript(h, p, i)
    \/ \E a, b \in Handles : Assign(a, b)
    \/ \E a \in Handles, v \in Values : AssignScalar(a, v)
    \/ \E h \in Handles : Destroy(h)

Spec == Init /\ [][Next]_vars

\* the same program with the operation before the last one recorded
InitHist ==
    /\ arrays = [h \in Handles |-> NoArray]
    /\ stores = [s \in StoreIds |-> NoStore]
    /\ last = NoOp
    /\ prev = NoOp
    /\ pc = [h \in Handles |-> "idle"]
    /\ hasCuda = FALSE
    /\ calls = 0
    /\ statics = NoSeeds
    /\ clock = 1
    /\ AuxInit

\* aliases of a source are made and every Array is dropped, in any order
NextAlias ==
    \/ \E h \in Handles, e \in ExtentInputs : ConstructExtent(h, e, "INT64", "CPU")
    \/ \E h, o \in Handles : CopyConstruct(h, o)
    \/ \E h \in Handles : Destroy(h)

SpecAlias == InitHist /\ [][NextAlias]_vars

\* alias copies between independent Arrays
NextChain ==
    \/ \E h \in Handles, e \in ExtentInputs : ConstructExtent(h, e, "INT64", "CPU")
    \/ \E h \in Handles, v \in Values : ConstructScalar(h, v, "INT64", "CPU")
    \/ \E a, b \in Handles : Assign(a, b)
    \/ \E a \in Handles, v \in Values : AssignScalar(a, v)

SpecChain == InitHist /\ [][NextChain]_vars

\* the element-wise dispatchers of both revisions on constructed Arrays,
\* scalars and subscripts
NextOps ==
    \/ \E h \in Handles, e \in ExtentInputs : ConstructExtent(h, e, "INT64", "CPU")
    \/ \E h \in Handles, v \in Values : ConstructScalar(h, v, "INT64", "CPU")
    \/ \E h, p \in Handles, i \in 0..1 : Subscript(h, p, i)
    \/ \E a \in Handles, v \in Values : AssignScalar(a, v)
    \/ \E d, s \in Handles, f \in BOOLEAN : LegacyApplyUnaryOp(d, s, f)
    \/ \E h, s \in Handles : LegacyApplyUnaryOpReturning(h, s)
    \/ \E d, a, b \in Handles, f \in BOOLEAN : LegacyApplyBinaryOp(d, a, b, f)
    \/ \E h, a, b \in Handles, f \in BOOLEAN : LegacyApplyBinaryOpReturning(h, a, b, f)
    \/ \E a, b, r \in Handles : CoreApplyBinaryOp(a, b, r)
    \/ \E h, a, b \in Handles : CoreApplyBinaryOpReturning(h, a, b)

SpecOps == Init /\ [][NextOps]_vars

\* ------------------------------------- Array::decrement, statement by statement
\* every Array is an alias of one storage and is dropped by a thread of its
\* own: thread t runs decrement() on Array t, and pc[t] is the statement it
\* is at
InitConc ==
    /\ \E e \in ExtentInputs :
           /\ arrays = [h \in Handles |-> constructNew(DefaultArray, 1, e, "INT64", "CPU")]
           /\ stores = [s \in StoreIds |->
                           IF s = 1
                           THEN [NewStore(e, "INT64", "CPU") EXCEPT !.refs = MaxArrays]
                           ELSE NoStore]
    /\ last = NoOp
    /\ prev = Off
    /\ pc = [h \in Handles |-> "idle"]
    /\ hasCuda = FALSE
    /\ calls = 0
    /\ statics = NoSeeds
    /\ clock = 1
    /\ AuxInit

\* --(*m_references): one atomic read-modify-write
decrementCount(t) ==
    /\ pc[t] = "idle"
    /\ arrays[t].live /\ arrays[t].ref # NullRef
    /\ stores' = [stores EXCEPT ![arrays[t].ref].refs = @ - 1]
    /\ pc' = [pc EXCEPT ![t] = "test"]
    /\ Record(Op("decrement", t, 0, "count", TRUE))
    /\ UNCHANGED <<arrays, hasCuda, statics, clock, calls, aux>>

\* if (*m_references == 0): a load of the counter of its own. A counter that
\* another thread has deleted is read after its free: either answer
decrementTest(t) ==
    /\ pc[t] = "test"
    /\ LET r == arrays[t].ref
       IN  \E zero \in (IF stores[r].status = "live" THEN {stores[r].refs = 0} ELSE BOOLEAN) :
               /\ pc' = [pc EXCEPT ![t] = IF zero THEN "free" ELSE "done"]
               /\ arrays' = IF zero THEN arrays ELSE [arrays EXCEPT ![t] = NoArray]
               /\ Record(Op("decrement", t, 0, IF zero THEN "zero" ELSE "nonzero", TRUE))
    /\ UNCHANGED <<stores, hasCuda, statics, clock, calls, aux>>

\* rawArrayFree(createRaw())
decrementFree(t) ==
    /\ pc[t] = "free"
    /\ stores' = [stores EXCEPT ![arrays[t].ref].frees = @ + 1, ![arrays[t].ref].data = <<>>]
    /\ pc' = [pc EXCEPT ![t] = "delete"]
    /\ Record(Op("decrement", t, 0, "free", TRUE))
    /\ UNCHANGED <<arrays, hasCuda, statics, clock, calls, aux>>

\* delete m_references
decrementDelete(t) ==
    /\ pc[t] = "delete"
    /\ stores' = [stores EXCEPT ![arrays[t].ref].status = "freed"]
    /\ arrays' = [arrays EXCEPT ![t] = NoArray]
    /\ pc' = [pc EXCEPT ![t] = "done"]
    /\ Record(Op("decrement", t, 0, "delete", TRUE))
    /\ UNCHANGED <<hasCuda, statics, clock, calls, aux>>

NextConc ==
    \/ \E t \in Handles : decrementCount(t)
    \/ \E t \in Handles : decrementTest(t)
    \/ \E t \in Handles : decrementFree(t)
    \/ \E t \in Handles : decrementDelete(t)

SpecConc == InitConc /\ [][NextConc]_vars

\* a CUDA build: Arrays of every element type on either device, and the
\* returning binary dispatchers of both revisions
InitPromote ==
    /\ arrays = [h \in Handles |-> NoArray]
    /\ stores = [s \in StoreIds |-> NoStore]
    /\ last = NoOp
    /\ prev = Off
    /\ pc = [h \in Handles |-> "idle"]
    /\ hasCuda = TRUE
    /\ calls = 0
    /\ statics = NoSeeds
    /\ clock = 1
    /\ AuxInit

NextPromote ==
    \/ \E h \in Handles, dt \in Datatypes, loc \in Accelerators :
           ConstructExtent(h, <<2>>, dt, loc)
    \/ \E h \in Handles, v \in Values, dt \in Datatypes, loc \in Accelerators :
           ConstructScalar(h, v, dt, loc)
    \/ \E h, a, b \in Handles : LegacyApplyBinaryOpReturning(h, a, b, FALSE)
    \/ \E h, a, b \in Handles : CoreApplyBinaryOpReturning(h, a, b)

SpecPromote == InitPromote /\ [][NextPromote]_vars

\* -------------------------------------------- lazy element-wise expression
\* the element values of the expression operands: LaneBits-wide unsigned
Lanes == 0..(2 ^ LaneBits - 1)

\* bit by bit over the w low bits of x and y
RECURSIVE Bitwise(_, _, _, _)
Bitwise(kind, x, y, w) ==
    IF w = 0 THEN 0
    ELSE LET bx == x % 2
             by == y % 2
             bit == IF kind = "or" THEN (IF bx + by > 0 THEN 1 ELSE 0)
                    ELSE IF kind = "and" THEN bx * by
                    ELSE (bx + by) % 2
         IN  bit + 2 * Bitwise(kind, x \div 2, y \div 2, w - 1)

\* functors::binary::BitwiseOr / BitwiseAnd / BitwiseXor: scalarOp, and
\* packetOp on one lane
BitwiseOr(left, right) == Bitwise("or", left, right, LaneBits)

BitwiseAnd(left, right) == Bitwise("and", left, right, LaneBits)

BitwiseXorAsOr(left, right) == Bitwise("or", left, right, LaneBits)

BitwiseXor(left, right) == Bitwise("xor", left, right, LaneBits)

MapOps == {"BitwiseOr", "BitwiseAnd", "BitwiseXor"}

\* m_operation(left, right)
Operation(op, left, right) ==
    IF op = "BitwiseOr" THEN BitwiseOr(left, right)
    ELSE IF op = "BitwiseAnd" THEN BitwiseAnd(left, right)
    ELSE BitwiseXor(left, right)

\* mapping::extractScalar(val, index): a scalar operand is the value
\* itself, an array operand gives val.scalar(index)
extractScalar(st, x, index) ==
    IF x.isScalar THEN st[x.ref].data[x.start + 1]
    ELSE st[x.ref].data[x.start + index + 1]

\* mapping::extractPacket(val, index): a scalar operand is broadcast to
\* every lane, an array operand gives the PacketLanes elements from index on
extractPacket(st, x, index) ==
    [j \in 1..PacketLanes |->
        IF x.isScalar THEN st[x.ref].data[x.start + 1]
        ELSE st[x.ref].data[x.start + index + j]]

\* CWiseMap::scalar(index) and CWiseMap::packet(index) of the node op(a, b)
scalar(st, op, a, b, index) ==
    Operation(op, extractScalar(st, a, index), extractScalar(st, b, index))

packet(st, op, a, b, index) ==
    [j \in 1..PacketLanes |->
        Operation(op, extractPacket(st, a, index)[j], extractPacket(st, b, index)[j])]

\* res.assign(node) on n elements: whole packets first, the remainder
\* element by element
assign(st, op, a, b, n) ==
    LET vectorised == (n \div PacketLanes) * PacketLanes
    IN  [k \in 1..n |->
            IF k - 1 < vectorised
            THEN packet(st, op, a, b, ((k - 1) \div PacketLanes) * PacketLanes)
                     [((k - 1) % PacketLanes) + 1]
            ELSE scalar(st, op, a, b, k - 1)]

\* an operand of an expression: a scalar value, or an array of n elements
Operand(s, isScalar, n) ==
    [constructNew(DefaultArray, s, IF isScalar THEN <<1>> ELSE <<n>>, "INT64", "CPU")
        EXCEPT !.isScalar = isScalar]

OperandStore(isScalar, d) ==
    [NewStore(<<IF isScalar THEN 1 ELSE Len(d)>>, "INT64", "CPU")
        EXCEPT !.data = IF isScalar THEN <<d[1]>> ELSE d]

\* the two operands of a node: Array 1 and Array 2, of every content, at
\* least one of them an array
InitMap ==
    /\ \E n \in 1..MapLen, sa, sb \in BOOLEAN :
       \E da, db \in [1..n -> Lanes] :
           /\ ~(sa /\ sb)
           /\ (sa => \A k \in 1..n : da[k] = da[1])
           /\ (sb => \A k \in 1..n : db[k] = db[1])
           /\ arrays = [h \in Handles |->
                           IF h = 1 THEN Operand(1, sa, n)
                           ELSE IF h = 2 THEN Operand(2, sb, n)
                           ELSE NoArray]
           /\ stores = [s \in StoreIds |->
                           IF s = 1 THEN OperandStore(sa, da)
                           ELSE IF s = 2 THEN OperandStore(sb, db)
                           ELSE NoStore]
    /\ last = NoOp
    /\ prev = Off
    /\ pc = [h \in Handles |-> "idle"]
    /\ hasCuda = FALSE
    /\ calls = 0
    /\ statics = NoSeeds
    /\ clock = 1
    /\ AuxInit

\* CWiseMap(op, a, b).eval(): Array res(extent()); res.assign(*this)
eval(h, op, a, b) ==
    /\ Dead # {} /\ h = FreshHandle
    /\ Unused # {}
    /\ a # b
    /\ arrays[a].live /\ arrays[b].live
    /\ LET x == arrays[a]
           y == arrays[b]
           e == extractAndCheckExtent(<<<<x.isScalar, x.extent>>, <<y.isScalar, y.extent>>>>)
           st == [stores EXCEPT ![FreshStore] = NewStore(e, "INT64", "CPU")]
       IN  /\ e # "assert"
           /\ arrays' = [arrays EXCEPT ![h] = constructNew(DefaultArray, FreshStore, e, "INT64", "CPU")]
           /\ stores' = [st EXCEPT ![FreshStore].data = assign(stores, op, x, y, ExtentSize(e))]
           /\ Record(ElementOp("eval", h, a, b, FALSE, op, TRUE))
    /\ UNCHANGED <<pc, hasCuda, statics, clock, calls, aux>>

NextMap == \E h, a, b \in Handles, op \in MapOps : eval(h, op, a, b)

SpecMap == InitMap /\ [][NextMap]_vars

\* --------------------------------------- clone, reshape and transpose
\* the number of clone / reshape / transpose calls of one run
MaxShapeCalls == 2

\* librapid::AUTO, the dimension reshape works out by itself
AUTO == -1

\* the shapes the Arrays start with, the shapes reshape is asked for and
\* the orders transpose is asked for (<<>> is the default order)
ShapeExtents == {<<3>>, <<2, 3>>, <<2, 1, 2>>}
ReshapeInputs ==
    <<(<<6>>), (<<3, 2>>), (<<AUTO, 2>>), (<<2, AUTO, 2>>), (<<AUTO, AUTO>>), (<<4>>), (<<3>>)>>
OrderInputs == <<(<<>>), (<<1, 0>>), (<<0, 1>>), (<<0, 0>>), (<<1, 2, 0>>)>>

\* Array::isSame
isSame(x, y) ==
    /\ x.ref = y.ref /\ x.start = y.start
    /\ x.extent = y.extent
    /\ x.stride = y.stride
    /\ x.isScalar = y.isScalar

\* the elements of an Array filled with a ramp of distinct values, none of
\* them a value an assignment stores
Ramp(n) == [i \in 1..n |-> Undef + 1 + i]

\* the Array a clone returns, on the storage s
CloneShared(x, s) == ReferenceCopy(x)

Cloned(x, s) ==
    [constructNew(DefaultArray, s, x.extent, x.dtype, x.location) EXCEPT
         !.isScalar = x.isScalar]

\* the storage table after a clone of x onto the fresh storage s: every
\* logical element of x is copied in order
CloneStore(st, x, s) ==
    CopyElems([st EXCEPT ![s] = NewStore(x.extent, x.dtype, x.location)],
              Cloned(x, s), x, ExtentSize(x.extent))

\* Array::clone() with the default dtype and locn
clone(h, a) ==
    /\ calls < MaxShapeCalls
    /\ Dead # {} /\ h = FreshHandle
    /\ Unused # {}
    /\ arrays[a].live /\ arrays[a].ref # NullRef
    /\ arrays' = [arrays EXCEPT ![h] = Cloned(arrays[a], FreshStore)]
    /\ stores' = CloneStore(stores, arrays[a], FreshStore)
    /\ Record(Op("clone", h, a, "", TRUE))
    /\ calls' = calls + 1
    /\ UNCHANGED <<pc, hasCuda, statics, clock, aux>>

\* the dimensions of e that are AUTO
Autos(e) == {i \in 1..Len(e) : e[i] = AUTO}

\* the product of the dimensions of e that are given
RECURSIVE Given(_)
Given(e) ==
    IF e = <<>> THEN 1
    ELSE (IF Head(e) = AUTO THEN 1 ELSE Head(e)) * Given(Tail(e))

\* Extent::reshape: the shape e with its AUTO dimension worked out for n
\* elements; it fails on two AUTOs and on a product that is not n
ResolveAnyProduct(e, n) ==
    IF Cardinality(Autos(e)) > 1 THEN [ok |-> FALSE, extent |-> e]
    ELSE [ok |-> TRUE,
          extent |-> [i \in 1..Len(e) |-> IF e[i] = AUTO THEN n \div Given(e) ELSE e[i]]]

Resolve(e, n) ==
    IF Cardinality(Autos(e)) > 1 THEN [ok |-> FALSE, extent |-> e]
    ELSE IF Autos(e) = {}
    THEN [ok |-> (Prod(e) = n), extent |-> e]
    ELSE [ok |-> (n % Given(e) = 0),
          extent |-> [i \in 1..Len(e) |-> IF e[i] = AUTO THEN n \div Given(e) ELSE e[i]]]

\* the strides under which the shape e names the elements of x in the same
\* order as x does, without a copy
Under(x, e) ==
    {s \in [1..Len(e) -> 1..ExtentSize(x.extent)] :
        \A k \in 0..(ExtentSize(x.extent) - 1) :
            Offset(e, s, k) = Offset(x.extent, x.stride, k)}

\* the Array after a reshape to the resolved shape e
Reshaped(x, e) ==
    IF Plain(x) THEN [x EXCEPT !.extent = e, !.stride = FromExtent(e)]
    ELSE LET s == CHOOSE s \in Under(x, e) : TRUE
         IN  [x EXCEPT !.extent = e, !.stride = s,
                       !.trivial = (s = FromExtent(e)),
                       !.contiguous = (s = FromExtent(e))]

\* whether reshape accepts the shape e for the Array x
Reshapeable(x, e) ==
    /\ Resolve(e, ExtentSize(x.extent)).ok
    /\ Plain(x) \/ Under(x, Resolve(e, ExtentSize(x.extent)).extent) # {}

\* Array::reshape(newShape), newShape being ReshapeInputs[n]
reshape(a, n) ==
    /\ calls < MaxShapeCalls
    /\ arrays[a].live /\ arrays[a].ref # NullRef
    /\ LET x == arrays[a]
           e == ReshapeInputs[n]
       IN  IF Reshapeable(x, e)
           THEN /\ arrays' = [arrays EXCEPT
                                 ![a] = Reshaped(x, Resolve(e, ExtentSize(x.extent)).extent)]
                /\ Record(ElementOp("reshape", a, 0, n, FALSE, "", TRUE))
           ELSE /\ Record(ElementOp("reshape", a, 0, n, FALSE, "", FALSE))
                /\ UNCHANGED arrays
    /\ calls' = calls + 1
    /\ UNCHANGED <<stores, pc, hasCuda, statics, clock, aux>>

\* Array::reshaped(newShape): the clone is reshaped and returned; when the
\* reshape throws, the clone is destroyed and its storage freed
reshaped(h, a, n) ==
    /\ calls < MaxShapeCalls
    /\ Dead # {} /\ h = FreshHandle
    /\ Unused # {}
    /\ arrays[a].live /\ arrays[a].ref # NullRef
    /\ LET res == Cloned(arrays[a], FreshStore)
           st == CloneStore(stores, arrays[a], FreshStore)
           e == ReshapeInputs[n]
       IN  IF Reshapeable(res, e)
           THEN /\ arrays' = [arrays EXCEPT
                                 ![h] = Reshaped(res, Resolve(e, ExtentSize(res.extent)).extent)]
                /\ stores' = st
                /\ Record(ElementOp("reshaped", h, a, n, FALSE, "", TRUE))
           ELSE /\ stores' = decrement(st, FreshStore)
                /\ Record(ElementOp("reshaped", h, a, n, FALSE, "", FALSE))
                /\ UNCHANGED arrays
    /\ calls' = calls + 1
    /\ UNCHANGED <<pc, hasCuda, statics, clock, aux>>

\* the order transpose uses for n dimensions when none is given: the full
\* reverse
DefaultOrderRotate(n) == [i \in 1..n |-> i % n]

DefaultOrder(n) == [i \in 1..n |-> n - i]

IdentityOrder(n) == [i \in 1..n |-> i - 1]

\* an order is a permutation of 0..n-1
IsPermutation(order, n) ==
    /\ Len(order) = n
    /\ {order[i] : i \in 1..n} = 0..(n - 1)

\* the vector s with dimension i taken from dimension order[i]
Permute(s, order) == [i \in 1..Len(s) |-> s[order[i] + 1]]

\* the Array after a transpose by the order given (<<>>: the default)
Transposed(x, order) ==
    LET ord == IF order = <<>> THEN DefaultOrder(Len(x.extent)) ELSE order
        same == (ord = IdentityOrder(Len(x.extent)))
    IN  [x EXCEPT !.extent = Permute(x.extent, ord),
                  !.stride = Permute(x.stride, ord),
                  !.trivial = IF same THEN @ ELSE FALSE,
                  !.contiguous = IF same THEN @ ELSE FALSE]

\* whether transpose accepts the order for the Array x
Transposable(x, order) == order = <<>> \/ IsPermutation(order, Len(x.extent))

\* Array::transpose(order), order being OrderInputs[n]
transpose(a, n) ==
    /\ calls < MaxShapeCalls
    /\ arrays[a].live /\ arrays[a].ref # NullRef
    /\ LET x == arrays[a]
           order == OrderInputs[n]
       IN  IF Transposable(x, order)
           THEN /\ arrays' = [arrays EXCEPT ![a] = Transposed(x, order)]
                /\ Record(ElementOp("transpose", a, 0, n, FALSE, "", TRUE))
           ELSE /\ Record(ElementOp("transpose", a, 0, n, FALSE, "", FALSE))
                /\ UNCHANGED arrays
    /\ calls' = calls + 1
    /\ UNCHANGED <<stores, pc, hasCuda, statics, clock, aux>>

\* Array::transposed(order): the clone is transposed and returned
transposed(h, a, n) ==
    /\ calls < MaxShapeCalls
    /\ Dead # {} /\ h = FreshHandle
    /\ Unused # {}
    /\ arrays[a].live /\ arrays[a].ref # NullRef
    /\ LET res == Cloned(arrays[a], FreshStore)
           st == CloneStore(stores, arrays[a], FreshStore)
           order == OrderInputs[n]
       IN  IF Transposable(res, order)
           THEN /\ arrays' = [arrays EXCEPT ![h] = Transposed(res, order)]
                /\ stores' = st
                /\ Record(ElementOp("transposed", h, a, n, FALSE, "", TRUE))
           ELSE /\ stores' = decrement(st, FreshStore)
                /\ Record(ElementOp("transposed", h, a, n, FALSE, "", FALSE))
                /\ UNCHANGED arrays
    /\ calls' = calls + 1
    /\ UNCHANGED <<pc, hasCuda, statics, clock, aux>>

\* one Array of each starting shape, filled with distinct values
InitShape ==
    /\ \E e \in ShapeExtents :
           /\ arrays = [h \in Handles |->
                           IF h = 1 THEN constructNew(DefaultArray, 1, e, "INT64", "CPU")
                           ELSE NoArray]
           /\ stores = [s \in StoreIds |->
                           IF s = 1 THEN [NewStore(e, "INT64", "CPU") EXCEPT
                                              !.data = Ramp(ExtentSize(e))]
                           ELSE NoStore]
    /\ last = NoOp
    /\ prev = NoOp
    /\ pc = [h \in Handles |-> "idle"]
    /\ hasCuda = FALSE
    /\ calls = 0
    /\ statics = NoSeeds
    /\ clock = 1
    /\ AuxInit

\* clones of Arrays of any layout, and writes through subscripts
NextClone ==
    \/ \E h, a \in Handles : clone(h, a)
    \/ \E a \in Handles, n \in 1..Len(OrderInputs) : transpose(a, n)
    \/ \E h, p \in Handles, i \in 0..1 : Subscript(h, p, i)
    \/ \E a \in Handles, v \in Values : AssignScalar(a, v)

SpecClone == InitShape /\ [][NextClone]_vars

\* reshapes of Arrays of any layout
NextReshape ==
    \/ \E a \in Handles, n \in 1..Len(ReshapeInputs) : reshape(a, n)
    \/ \E h, a \in Handles, n \in 1..Len(ReshapeInputs) : reshaped(h, a, n)
    \/ \E a \in Handles, n \in 1..Len(OrderInputs) : transpose(a, n)
    \/ \E h, p \in Handles, i \in 0..1 : Subscript(h, p, i)

SpecReshape == InitShape /\ [][NextReshape]_vars

\* transposes of Arrays of any layout
NextTranspose ==
    \/ \E a \in Handles, n \in 1..Len(OrderInputs) : transpose(a, n)
    \/ \E h, a \in Handles, n \in 1..Len(OrderInputs) : transposed(h, a, n)
    \/ \E h, p \in Handles, i \in 0..1 : Subscript(h, p, i)

SpecTranspose == InitShape /\ [][NextTranspose]_vars

\* ------------------------------------------------------------- fillRandom
\* the number of fillRandom / filledRandom calls of one run, and the last
\* reading of the clock (seconds() * 10, in tenths of a second)
MaxSeedCalls == 3
MaxClock == 3

\* the seed arguments of the callers: the default and two given seeds
SeedInputs == {-1, 1, 2}

\* time passes between two calls
Tick ==
    /\ clock < MaxClock
    /\ clock' = clock + 1
    /\ UNCHANGED <<arrays, stores, last, prev, pc, hasCuda, calls, statics, aux>>

\* the statics of fillRandom<T> after the seed test of a call with the
\* seed given
Seeded(s, seed) ==
    IF s.prevSeed # seed \/ ~s.statSeedSet \/ seed # Unsigned(-1)
    THEN [prevSeed |-> seed,
          statSeed |-> IF seed = Unsigned(-1) THEN Unsigned(clock) ELSE seed,
          statSeedSet |-> TRUE]
    ELSE s

\* element k of the values ops::FillRandom draws from a seed, inside
\* [min, max]
Draw(seed, k) == 1 + ((seed + k) % MaxVal)

\* applyUnaryOp(*this, *this, ops::FillRandom<T>(min, max, statSeed)) on an
\* initialised Array: every logical element is overwritten
RECURSIVE FillRandom(_, _, _, _)
FillRandom(st, x, seed, n) ==
    IF n = 0 THEN st
    ELSE WriteAt(FillRandom(st, x, seed, n - 1), x, n - 1, Draw(seed, n - 1))

\* Array::fillRandom<T>(min, max, seed); the record holds the seed argument
\* as a, the seed handed to ops::FillRandom as b and T as kind
fillRandom(h, T, seedArg) ==
    /\ calls < MaxSeedCalls
    /\ arrays[h].live
    /\ LET seed == Unsigned(seedArg)
           s == Seeded(statics[T], seed)
           x == arrays[h]
       IN  /\ statics' = [statics EXCEPT ![T] = s]
           /\ IF x.ref = NullRef
              THEN /\ Record(ElementOp("fillRandom", h, seed, s.statSeed, FALSE, T, FALSE))
                   /\ UNCHANGED stores
              ELSE /\ stores' = FillRandom(stores, x, s.statSeed, ExtentSize(x.extent))
                   /\ Record(ElementOp("fillRandom", h, seed, s.statSeed, FALSE, T, TRUE))
    /\ calls' = calls + 1
    /\ UNCHANGED <<arrays, pc, hasCuda, clock, aux>>

\* Array::filledRandom<T>(min, max, seed): a new Array of the receiver's
\* extent, dtype and location is filled and returned
filledRandom(h, a, T, seedArg) ==
    /\ calls < MaxSeedCalls
    /\ Dead # {} /\ h = FreshHandle
    /\ Unused # {}
    /\ arrays[a].live /\ arrays[a].ref # NullRef
    /\ LET seed == Unsigned(seedArg)
           s == Seeded(statics[T], seed)
           o == arrays[a]
           res == constructNew(DefaultArray, FreshStore, o.extent, o.dtype, o.location)
           st == [stores EXCEPT ![FreshStore] = NewStore(o.extent, o.dtype, o.location)]
       IN  /\ statics' = [statics EXCEPT ![T] = s]
           /\ arrays' = [arrays EXCEPT ![h] = res]
           /\ stores' = FillRandom(st, res, s.statSeed, ExtentSize(res.extent))
           /\ Record(ElementOp("filledRandom", h, seed, s.statSeed, FALSE, T, TRUE))
    /\ calls' = calls + 1
    /\ UNCHANGED <<pc, hasCuda, clock, aux>>

\* an Array of two elements and a default-constructed one, before the first
\* call of fillRandom
InitSeed ==
    /\ arrays = [h \in Handles |->
                    IF h = 1 THEN constructNew(DefaultArray, 1, <<2>>, "INT64", "CPU")
                    ELSE IF h = 2 THEN DefaultArray
                    ELSE NoArray]
    /\ stores = [s \in StoreIds |->
                    IF s = 1 THEN NewStore(<<2>>, "INT64", "CPU") ELSE NoStore]
    /\ last = NoOp
    /\ prev = NoOp
    /\ pc = [h \in Handles |-> "idle"]
    /\ hasCuda = FALSE
    /\ calls = 0
    /\ statics = NoSeeds
    /\ clock = 1
    /\ AuxInit

NextSeed ==
    \/ Tick
    \/ \E h \in Handles, T \in RandomTypes, seedArg \in SeedInputs : fillRandom(h, T, seedArg)
    \/ \E h, a \in Handles, T \in RandomTypes, seedArg \in SeedInputs :
           filledRandom(h, a, T, seedArg)

SpecSeed == InitSeed /\ [][NextSeed]_vars

\* -------------------------------------------------------------- mapKernel
\* the number of mapKernel calls of one run
MaxKernelCalls == 1

\* the extents and the layouts of the Arrays handed to mapKernel: row major
\* (trivial and contiguous), column major (no gaps, not the row-major
\* strides) and every second element of a larger storage (neither)
KernelExtents == {<<2, 2>>, <<3, 2>>}
Layouts == {"row", "column", "gapped"}

\* Stride::fromExtent, column major
RECURSIVE FromExtentColumn(_, _)
FromExtentColumn(e, below) ==
    IF e = <<>> THEN <<>>
    ELSE <<below>> \o FromExtentColumn(Tail(e), below * Head(e))

\* an Array of extent e and element type dt in the layout given, on the
\* storage s
Laid(s, e, dt, layout) ==
    LET x == constructNew(DefaultArray, s, e, dt, "CPU")
    IN  IF layout = "row" THEN x
        ELSE IF layout = "column"
        THEN [x EXCEPT !.stride = FromExtentColumn(e, 1), !.trivial = FALSE,
                       !.contiguous = TRUE]
        ELSE [x EXCEPT !.stride = [i \in 1..Len(e) |-> 2 * FromExtent(e)[i]],
                       !.trivial = FALSE, !.contiguous = FALSE]

\* its storage, filled
LaidStore(e, dt, layout) ==
    [status |-> "live", refs |-> 1, frees |-> 0,
     data |-> Ramp(IF layout = "gapped" THEN 2 * ExtentSize(e) ELSE ExtentSize(e)),
     dtype |-> dt, location |-> "CPU"]

\* the test mapKernelGetPointers makes on every Array of the pack but the
\* last, against the extent e and the element type d of the destination
Rejected(first, e, d) ==
    \/ d # first.dtype
    \/ ~first.contiguous
    \/ first.extent # e
    \/ first.dtype # d

\* mapKernelGetPointers: whether the pack passes, the last Array of the
\* pack being taken without a test
RECURSIVE mapKernelGetPointers(_, _, _)
mapKernelGetPointers(e, d, pack) ==
    IF Len(pack) = 1 THEN TRUE
    ELSE /\ ~Rejected(arrays[Head(pack)], e, d)
         /\ mapKernelGetPointers(e, d, Tail(pack))

\* element i behind the raw pointer of the Array x
RawAt(st, x, i) == st[x.ref].data[x.start + i + 1]

\* the kernel called by mapKernel on element i of every source: their sum
RECURSIVE Kernel(_, _, _)
Kernel(st, srcs, i) ==
    IF srcs = <<>> THEN 0
    ELSE RawAt(st, arrays[Head(srcs)], i) + Kernel(st, Tail(srcs), i)

\* the loop of mapKernel over the first n elements behind the pointers
RECURSIVE ApplyKernel(_, _, _, _)
ApplyKernel(st, srcs, d, n) ==
    IF n = 0 THEN st
    ELSE LET done == ApplyKernel(st, srcs, d, n - 1)
         IN  [done EXCEPT ![d.ref].data[d.start + n] = Kernel(done, srcs, n - 1)]

\* the sources of a pack: every Array but the last
Sources(pack) == SubSeq(pack, 1, Len(pack) - 1)

\* Array::mapKernel(kernel, arrayPack...), the last Array of the pack being
\* the destination
mapKernel(pack) ==
    /\ calls < MaxKernelCalls
    /\ \A i \in 1..Len(pack) : arrays[pack[i]].live /\ arrays[pack[i]].ref # NullRef
    /\ LET dst == pack[Len(pack)]
           d == arrays[dst]
           a == pack[1]
           b == IF Len(pack) > 2 THEN pack[2] ELSE 0
       IN  IF mapKernelGetPointers(d.extent, d.dtype, pack)
           THEN /\ stores' = ApplyKernel(stores, Sources(pack), d, ExtentSize(d.extent))
                /\ Record(ElementOp("mapKernel", dst, a, b, FALSE, "", TRUE))
           ELSE /\ Record(ElementOp("mapKernel", dst, a, b, FALSE, "", FALSE))
                /\ UNCHANGED stores
    /\ calls' = calls + 1
    /\ UNCHANGED <<arrays, pc, hasCuda, statics, clock, aux>>

\* three Arrays of any of the extents, element types and layouts, each on a
\* storage of its own
InitKernel ==
    /\ \E e \in [Handles -> KernelExtents], dt \in [Handles -> {"INT64", "FLOAT64"}],
          layout \in [Handles -> Layouts] :
           /\ arrays = [h \in Handles |-> Laid(h, e[h], dt[h], layout[h])]
           /\ stores = [s \in StoreIds |-> LaidStore(e[s], dt[s], layout[s])]
    /\ last = NoOp
    /\ prev = Off
    /\ pc = [h \in Handles |-> "idle"]
    /\ hasCuda = FALSE
    /\ calls = 0
    /\ statics = NoSeeds
    /\ clock = 1
    /\ AuxInit

NextKernel ==
    \/ \E a, dst \in Handles : mapKernel(<<a, dst>>)
    \/ \E a, b, dst \in Handles : mapKernel(<<a, b, dst>>)

SpecKernel == InitKernel /\ [][NextKernel]_vars

\* ------------------------------------------------- scalars on either build
\* a build with or without CUDA, before the first Array is constructed
InitScalar ==
    /\ arrays = [h \in Handles |-> NoArray]
    /\ stores = [s \in StoreIds |-> NoStore]
    /\ last = NoOp
    /\ prev = Off
    /\ pc = [h \in Handles |-> "idle"]
    /\ hasCuda \in BOOLEAN
    /\ calls = 0
    /\ statics = NoSeeds
    /\ clock = 1
    /\ AuxInit

\* scalars of every element type are constructed for either device, copied
\* and dropped
NextScalar ==
    \/ \E h \in Handles, v \in Values, dt \in Datatypes, loc \in Accelerators :
           ConstructScalar(h, v, dt, loc)
    \/ \E h, o \in Handles : CopyConstruct(h, o)
    \/ \E h \in Handles : Destroy(h)

SpecScalar == InitScalar /\ [][NextScalar]_vars

\* ------------------------------- dispatchers on Arrays of one element
\* the extents of the Arrays the dispatchers are handed here: an Array of
\* one element that is not a scalar, and one of two
FlagExtents == {<<1>>, <<2>>}

NextFlag ==
    \/ \E h \in Handles, e \in FlagExtents : ConstructExtent(h, e, "INT64", "CPU")
    \/ \E h \in Handles, v \in Values : ConstructScalar(h, v, "INT64", "CPU")
    \/ \E d, s \in Handles, f \in BOOLEAN : LegacyApplyUnaryOp(d, s, f)
    \/ \E h, s \in Handles : LegacyApplyUnaryOpReturning(h, s)
    \/ \E d, a, b \in Handles, f \in BOOLEAN : LegacyApplyBinaryOp(d, a, b, f)
    \/ \E h, a, b \in Handles, f \in BOOLEAN : LegacyApplyBinaryOpReturning(h, a, b, f)
    \/ \E a, b, r \in Handles : CoreApplyBinaryOp(a, b, r)
    \/ \E h, a, b \in Handles : CoreApplyBinaryOpReturning(h, a, b)

SpecFlag == Init /\ [][NextFlag]_vars

\* ----------------------------------- dispatchers on transposed Arrays
\* the extents of the Arrays the dispatchers are handed here
StrideExtents == {<<2>>, <<2, 2>>}

\* Arrays are allocated and transposed, and the store-into-destination
\* dispatchers of both revisions run on them; the binary one is called with
\* permitInvalid at its default, which keeps every stride as long as its
\* extent
NextStride ==
    \/ \E h \in Handles, e \in StrideExtents : ConstructExtent(h, e, "INT64", "CPU")
    \/ \E a \in Handles, n \in 1..Len(OrderInputs) : transpose(a, n)
    \/ \E d, s \in Handles, f \in BOOLEAN : LegacyApplyUnaryOp(d, s, f)
    \/ \E d, a, b \in Handles : LegacyApplyBinaryOp(d, a, b, FALSE)
    \/ \E a, b, r \in Handles : CoreApplyBinaryOp(a, b, r)

SpecStride == Init /\ [][NextStride]_vars

\* ------------------------------------------------ the CPU loop of mapKernel
\* the element count from which the loop is an OpenMP parallel for
ParallelFrom == 2500

\* the longest run of consecutive indices a thread works through in one turn
Piece == 1250

\* element counts below, at and above the threshold
LoopExtents == {<<ParallelFrom - 1>>, <<ParallelFrom>>, <<ParallelFrom + 1>>}

\* the index range [0, n) cut into runs <<from, to>> of at most Piece indices
Pieces(n) ==
    {<<k * Piece, IF (k + 1) * Piece < n THEN (k + 1) * Piece ELSE n>> :
        k \in 0..((n - 1) \div Piece)}

\* the for loop of mapKernel over the indices [from, to), in index order:
\* its lower half is carried out to the end, then its upper half on the
\* storages the lower half left
RECURSIVE Loop(_, _, _, _, _)
Loop(st, srcs, d, from, to) ==
    IF to <= from THEN st
    ELSE IF to = from + 1
    THEN [st EXCEPT ![d.ref].data[d.start + to] = Kernel(st, srcs, from)]
    ELSE LET mid == (from + to) \div 2
             lower == Loop(st, srcs, d, from, mid)
         IN  IF DOMAIN lower = DOMAIN st THEN Loop(lower, srcs, d, mid, to) ELSE lower

\* whether the loop over end elements is the parallel one: never in a build
\* with LIBRAPID_PYTHON, otherwise unless end < 2500
Parallel(end) == ~isPython /\ ~(end < ParallelFrom)

\* the storage named by the first two Arrays and the one named by the rest
LoopStore(h) == IF h <= 2 THEN 1 ELSE 2

\* the values ApplyKernelImpl::run computes for the indices of the piece p
RunRead(srcs, p) ==
    [j \in 1..(p[2] - p[1]) |-> Kernel(stores, srcs, p[1] + j - 1)]

\* ... and their stores into the destination d
RunWrite(d, p, v) ==
    [stores EXCEPT ![d.ref].data =
        [i \in 1..Len(@) |->
            IF d.start + p[1] < i /\ i <= d.start + p[2]
            THEN v[i - d.start - p[1]] ELSE @[i]]]

\* the implicit barrier that ends the parallel region: no piece is left
\* and no thread is inside one
JoinedAtOnce(k) == TRUE

Joined(k) == k.todo = {} /\ \A w \in Workers : k.held[w] = <<>>

\* Array::mapKernel up to its loop: mapKernelGetPointers, then either the
\* serial loop, run to its end by the calling thread, or the start of the
\* parallel region
mapKernelCpu(pack) ==
    /\ kern.phase = "idle"
    /\ calls < MaxKernelCalls
    /\ \A i \in 1..Len(pack) : arrays[pack[i]].live /\ arrays[pack[i]].ref # NullRef
    /\ LET dst == pack[Len(pack)]
           d == arrays[dst]
           a == pack[1]
           b == IF Len(pack) > 2 THEN pack[2] ELSE 0
           end == ExtentSize(d.extent)
       IN  IF ~mapKernelGetPointers(d.extent, d.dtype, pack)
           THEN /\ Record(ElementOp("mapKernel", dst, a, b, FALSE, "", FALSE))
                /\ calls' = calls + 1
                /\ UNCHANGED <<stores, kern>>
           ELSE IF ~Parallel(end)
           THEN /\ stores' = Loop(stores, Sources(pack), d, 0, end)
                /\ kern' = [NoLoop EXCEPT !.pack = pack, !.before = stores,
                                          !.visits = [p \in Pieces(end) |-> 1]]
                /\ Record(ElementOp("mapKernel", dst, a, b, FALSE, "serial", TRUE))
                /\ calls' = calls + 1
           ELSE /\ kern' = [NoLoop EXCEPT !.phase = "parallel", !.pack = pack,
                                          !.todo = Pieces(end), !.before = stores,
                                          !.visits = [p \in Pieces(end) |-> 0]]
                /\ UNCHANGED <<stores, last, prev, calls>>
    /\ UNCHANGED <<arrays, pc, hasCuda, statics, clock, isPython, launch, gpu, ref, sig>>

\* a thread of the team takes a piece nobody took and reads the sources
WorkerRead(w) ==
    /\ kern.phase = "parallel"
    /\ kern.held[w] = <<>>
    /\ \E p \in kern.todo :
           kern' = [kern EXCEPT !.todo = @ \ {p}, !.held[w] = p,
                                !.vals[w] = RunRead(Sources(kern.pack), p)]
    /\ UNCHANGED <<arrays, stores, last, prev, pc, hasCuda, calls, statics, clock,
                   isPython, launch, gpu, ref, sig>>

\* ... and stores the results of its piece
WorkerWrite(w) ==
    /\ kern.phase = "parallel"
    /\ kern.held[w] # <<>>
    /\ LET p == kern.held[w]
           d == arrays[kern.pack[Len(kern.pack)]]
       IN  /\ stores' = RunWrite(d, p, kern.vals[w])
           /\ kern' = [kern EXCEPT !.held[w] = <<>>, !.vals[w] = <<>>,
                                   !.visits[p] = @ + 1]
    /\ UNCHANGED <<arrays, last, prev, pc, hasCuda, calls, statics, clock, isPython, launch, gpu, ref, sig>>

\* the end of the parallel region and the return of mapKernel
mapKernelReturn ==
    /\ kern.phase = "parallel"
    /\ Joined(kern)
    /\ LET pack == kern.pack
       IN  Record(ElementOp("mapKernel", pack[Len(pack)], pack[1],
                            IF Len(pack) > 2 THEN pack[2] ELSE 0, FALSE, "parallel",
                            TRUE))
    /\ kern' = [kern EXCEPT !.phase = "idle"]
    /\ calls' = calls + 1
    /\ UNCHANGED <<arrays, stores, pc, hasCuda, statics, clock, isPython, launch, gpu, ref, sig>>

\* either build; the first two Arrays name one storage (each is an alias of
\* the other), the others a second one
InitLoop ==
    /\ \E e \in LoopExtents :
           /\ arrays = [h \in Handles |->
                           constructNew(DefaultArray, LoopStore(h), e, "INT64", "CPU")]
           /\ stores = [s \in StoreIds |->
                           IF s <= 2
                           THEN [status |-> "live",
                                 refs |-> Cardinality({h \in Handles : LoopStore(h) = s}),
                                 frees |-> 0,
                                 data |-> [i \in 1..ExtentSize(e) |-> s * (Undef + 1 + i)],
                                 dtype |-> "INT64", location |-> "CPU"]
                           ELSE NoStore]
    /\ last = NoOp
    /\ prev = Off
    /\ pc = [h \in Handles |-> "idle"]
    /\ hasCuda = FALSE
    /\ calls = 0
    /\ statics = NoSeeds
    /\ clock = 1
    /\ isPython \in BOOLEAN
    /\ kern = NoLoop
    /\ launch = NoLaunch
    /\ gpu = NoGpu
    /\ ref = NoRef
    /\ sig = NoSig

NextLoop ==
    \/ \E a, dst \in Handles : mapKernelCpu(<<a, dst>>)
    \/ \E a, b, dst \in Handles : mapKernelCpu(<<a, b, dst>>)
    \/ \E w \in Workers : WorkerRead(w)
    \/ \E w \in Workers : WorkerWrite(w)
    \/ mapKernelReturn

SpecLoop == InitLoop /\ [][NextLoop]_vars

\* ------------------------------------------------- the GPU launch of mapKernel
\* the kernel launches of one run
MaxLaunches == 3

\* the largest number of threads in a block
BlockThreads == 512

\* blockDim.x, blockIdx.x and threadIdx.x are unsigned int: 32 bits wide,
\* kept here at IndexBits bits
IndexBits == 10
UnsignedInt(x) == x % (2 ^ IndexBits)

\* element counts around one block, around two blocks and around the
\* largest value of an unsigned int
LaunchSizes ==
    {1, 2, BlockThreads - 1, BlockThreads, BlockThreads + 1, 2 * BlockThreads - 1,
     2 * BlockThreads, 2 * BlockThreads + 1, 2 ^ IndexBits - 1, 2 ^ IndexBits,
     2 ^ IndexBits + 1, 2 ^ IndexBits + BlockThreads + 1}

\* ceil(double(a) / double(b)); both conversions and the quotient are exact
\* for the element counts an allocation can have (below 2^53)
CeilOfQuotient(a, b) == IF a % b = 0 THEN a \div b ELSE a \div b + 1

\* threadsPerBlock and blocksPerGrid for end elements
ThreadsPerBlock(end) == IF end < BlockThreads THEN end ELSE BlockThreads

BlocksPerGrid(end) ==
    IF end < BlockThreads THEN 1 ELSE CeilOfQuotient(end, BlockThreads)

\* binaryFuncTrivial: kernelIndex of thread t of block b, the product and
\* the sum being computed in unsigned int
KernelIndex(threads, b, t) == UnsignedInt(UnsignedInt(threads * b) + t)

\* the launch of the kernel over end elements: the grid is configured
Launch(end) ==
    /\ calls < MaxLaunches
    /\ launch.ran = 0..(launch.blocks - 1)
    /\ launch' = [n |-> end, threads |-> ThreadsPerBlock(end),
                  blocks |-> BlocksPerGrid(end), ran |-> {}, written |-> {},
                  count |-> 0]
    /\ calls' = calls + 1
    /\ UNCHANGED <<arrays, stores, last, prev, pc, hasCuda, statics, clock, isPython,
                   kern, gpu, ref, sig>>

\* the test binaryFuncTrivial makes before its store
InsideSize(kernelIndex, size) == kernelIndex < size

\* one block of the grid runs: each of its threads stores to
\* dstData[kernelIndex] if kernelIndex < size; written are the indices
\* stored to so far and count is the number of stores
BlockRun(b) ==
    /\ b \in 0..(launch.blocks - 1)
    /\ b \notin launch.ran
    /\ LET index == [t \in 0..(launch.threads - 1) |-> KernelIndex(launch.threads, b, t)]
           storing == {t \in DOMAIN index : InsideSize(index[t], launch.n)}
       IN  launch' =
               [launch EXCEPT
                   !.ran = @ \cup {b},
                   !.written = @ \cup {index[t] : t \in storing},
                   !.count = @ + Cardinality(storing)]
    /\ UNCHANGED <<arrays, stores, last, prev, pc, hasCuda, calls, statics, clock,
                   isPython, kern, gpu, ref, sig>>

NextLaunch ==
    \/ \E end \in LaunchSizes : Launch(end)
    \/ \E b \in 0..(2 ^ IndexBits) : BlockRun(b)

SpecLaunch == Init /\ [][NextLaunch]_vars

\* ------------------------------------------ the GPU singletons of the process
\* the calls of one run
MaxGpuCalls == 3

\* Array::initializeCudaStream, as called by the constructor of a scalar
initializeCudaStream ==
    /\ calls < MaxGpuCalls
    /\ gpu' = IF ~gpu.streamCreated
              THEN [gpu EXCEPT !.streamCreated = TRUE, !.created = @ + 1]
              ELSE gpu
    /\ Record(Op("initializeCudaStream", 0, 0, "", TRUE))
    /\ calls' = calls + 1
    /\ UNCHANGED <<arrays, stores, pc, hasCuda, statics, clock, isPython, kern, launch, ref, sig>>

\* the statics of an instantiation after the scratch region was made ready
\* for pointers operand pointers: allocated if it was nullptr, then doubled
\* (maxPointers <<= 1, far below the range of uint64_t) and reallocated if
\* pointers exceeds maxPointers
Allocated(s) == IF s.gpuPointers = 0 THEN [s EXCEPT !.gpuPointers = s.maxPointers] ELSE s

Regrown(s, pointers) ==
    IF pointers > s.maxPointers
    THEN [s EXCEPT !.maxPointers = 2 * @, !.gpuPointers = 2 * s.maxPointers]
    ELSE s

\* kernelCache.program(gpuKernel, ...): the program of the source, compiled
\* if this cache does not hold it
Served(s, source) == source \in s.kernelCache

\* the GPU branch of Array::mapKernel for one instantiation, up to the
\* launch: the operand pointers are copied to the scratch region and the
\* program is taken from the cache
mapKernelGpu(i) ==
    /\ calls < MaxGpuCalls
    /\ hasCuda
    /\ LET pointers == i.pack - 1
           s == Regrown(Allocated(gpu.inst[i]), pointers)
           source == SourceOf(i)
           hit == Served(s, source)
       IN  /\ gpu' = [gpu EXCEPT
                         !.inst[i] = [s EXCEPT !.kernelCache = @ \cup {source}],
                         !.compiled[source] = IF hit THEN @ ELSE @ + 1,
                         !.copied = pointers,
                         !.room = s.gpuPointers]
           /\ Record(Op("mapKernelGpu", 0, pointers,
                        IF hit THEN "cached" ELSE "compiled", TRUE))
    /\ calls' = calls + 1
    /\ UNCHANGED <<arrays, stores, pc, hasCuda, statics, clock, isPython, kern, launch, ref, sig>>

\* a build with CUDA and the managed stream, before the first Array
InitGpu ==
    /\ arrays = [h \in Handles |-> NoArray]
    /\ stores = [s \in StoreIds |-> NoStore]
    /\ last = NoOp
    /\ prev = Off
    /\ pc = [h \in Handles |-> "idle"]
    /\ hasCuda = TRUE
    /\ calls = 0
    /\ statics = NoSeeds
    /\ clock = 1
    /\ AuxInit

NextGpu ==
    \/ initializeCudaStream
    \/ \E i \in Instantiations : mapKernelGpu(i)

SpecGpu == InitGpu /\ [][NextGpu]_vars

\* ------------------------------------------- scalars constructed from names
\* the kinds of value a scalar is constructed from: the overloads for bool,
\* float and double and the template for integral types
ScalarKinds == <<"bool", "float", "double", "integral">>

\* names handed to the constructors for the datatype and the accelerator
DtypeNames == <<"int64", "float32", "f64">>
LocnNames == <<"CPU", "gpu">>

\* stringToDatatype: the Datatype a name stands for, "unknown" where the
\* name is none of a Datatype (the call throws)
stringToDatatype(name) ==
    IF name \in {"i", "i64", "int64", "long long"} THEN "INT64"
    ELSE IF name \in {"f32", "float32", "float"} THEN "FLOAT32"
    ELSE IF name \in {"f", "f64", "float64", "double"} THEN "FLOAT64"
    ELSE "unknown"

\* stringToAccelerator: the names are matched without regard to case
stringToAccelerator(name) ==
    IF name \in {"cpu", "CPU", "Cpu"} THEN "CPU"
    ELSE IF name \in {"gpu", "GPU", "Gpu"} THEN "GPU"
    ELSE "unknown"

\* the name whose Datatype the constructor of a kind of value passes on:
\* the overloads for bool, float and double convert locn, the template for
\* integral values converts dtype
DatatypeArgument(kind, dtype, locn) == IF kind = "integral" THEN dtype ELSE locn

\* Array::Array(val, const std::string &dtype, const std::string &locn) for
\* the kind of value ScalarKinds[k], the names DtypeNames[d] and LocnNames[l]
ConstructScalarNamed(h, k, v, d, l) ==
    /\ Dead # {} /\ h = FreshHandle
    /\ Unused # {}
    /\ LET dt == stringToDatatype(DatatypeArgument(ScalarKinds[k], DtypeNames[d], LocnNames[l]))
           loc == stringToAccelerator(LocnNames[l])
           o == ElementOp("ConstructScalarNamed", h, d, l, FALSE, ScalarKinds[k], TRUE)
       IN  IF dt = "unknown" \/ loc = "unknown" \/ (loc = "GPU" /\ ~hasCuda)
           THEN /\ Record([o EXCEPT !.ok = FALSE])
                /\ UNCHANGED <<arrays, stores>>
           ELSE LET a1 == constructNew(DefaultArray, FreshStore, <<1>>, dt, loc)
                    a2 == [a1 EXCEPT !.isScalar = TRUE]
                    st == [stores EXCEPT ![FreshStore] = NewStore(<<1>>, dt, loc)]
                IN  /\ stores' = WriteAt(st, a2, 0, v)
                    /\ arrays' = [arrays EXCEPT ![h] = a2]
                    /\ Record(o)
    /\ UNCHANGED <<pc, hasCuda, statics, clock, calls, aux>>

NextNamed ==
    \/ \E h \in Handles, k \in DOMAIN ScalarKinds, v \in Values, d \in DOMAIN DtypeNames,
          l \in DOMAIN LocnNames : ConstructScalarNamed(h, k, v, d, l)
    \/ \E h, o \in Handles : CopyConstruct(h, o)
    \/ \E h \in Handles : Destroy(h)

SpecNamed == InitScalar /\ [][NextNamed]_vars

\* -------------------------------------------- scalar assignment to aliases
\* Arrays are allocated, copied, subscripted, assigned a scalar and dropped,
\* the operation before the last being recorded
NextRebind ==
    \/ \E h \in Handles, e \in ExtentInputs : ConstructExtent(h, e, "INT64", "CPU")
    \/ \E h, o \in Handles : CopyConstruct(h, o)
    \/ \E h, p \in Handles, i \in 0..1 : Subscript(h, p, i)
    \/ \E a \in Handles, v \in Values : AssignScalar(a, v)
    \/ \E h \in Handles : Destroy(h)

SpecRebind == InitHist /\ [][NextRebind]_vars

\* ------------------------------------------------------------ ValueReference
\* the element type T of ValueReference<T, device::CPU>: unsigned, RefBits
\* bits wide
RefBits == 2
RefValues == 0..(2 ^ RefBits - 1)
AsT(x) == x % (2 ^ RefBits)

\* the operators IMPL_BINOP defines: NAME is the const member that returns
\* get() OP (T)other, ASSIGN the member that is not const and calls
\* set(get() OP (T)other)
Comparisons == {"==", "!="}
Arithmetic == {"+", "-", "*", "/", "|", "&", "^"}

\* get() OP (T)other; a comparison gives a bool, which is 0 or 1 as a T
BinOp(op, v, x) ==
    IF op = "==" THEN (IF v = x THEN 1 ELSE 0)
    ELSE IF op = "!=" THEN (IF v # x THEN 1 ELSE 0)
    ELSE IF op = "+" THEN v + x
    ELSE IF op = "-" THEN v - x
    ELSE IF op = "*" THEN v * x
    ELSE IF op = "/" THEN v \div x
    ELSE IF op = "|" THEN Bitwise("or", v, x, RefBits)
    ELSE IF op = "&" THEN Bitwise("and", v, x, RefBits)
    ELSE Bitwise("xor", v, x, RefBits)

\* the member a call NAME(other) resolves to: for the arithmetic operators
\* NAME and ASSIGN are different names (operator+ and operator+=), for the
\* comparisons they are the same name, and the member that is not const is
\* the better match on a ValueReference that is not const
ResolvesToAssign(op, isConst) == op \in Comparisons /\ ~isConst

\* the result of a member as recorded: what NAME returns, void for ASSIGN
Returned(op, r) ==
    IF op \in Comparisons THEN (IF r = 1 THEN "true" ELSE "false") ELSE "value"

\* ref OP other on a ValueReference that is const or not
RefBinary(op, isConst, x) ==
    /\ op = "/" => x # 0
    /\ LET v == ref.value
           r == BinOp(op, v, x)
       IN  IF ResolvesToAssign(op, isConst)
           THEN /\ ref' = [ref EXCEPT !.value = AsT(r)]
                /\ Record(ElementOp(op, 0, x, v, isConst, "void", TRUE))
           ELSE /\ ref' = ref
                /\ Record(ElementOp(op, 0, x, v, isConst, Returned(op, r), TRUE))
    /\ UNCHANGED <<arrays, stores, pc, hasCuda, calls, statics, clock, isPython, kern,
                   launch, gpu, sig>>

\* ref OP= other, for the operators whose ASSIGN has a name of its own
RefCompound(op, x) ==
    /\ op = "/" => x # 0
    /\ LET v == ref.value
       IN  /\ ref' = [ref EXCEPT !.value = AsT(BinOp(op, v, x))]
           /\ Record(ElementOp(op \o "=", 0, x, v, FALSE, "void", TRUE))
    /\ UNCHANGED <<arrays, stores, pc, hasCuda, calls, statics, clock, isPython, kern,
                   launch, gpu, sig>>

\* ref = val
RefAssign(x) ==
    /\ ref' = [ref EXCEPT !.value = x]
    /\ Record(ElementOp("=", 0, x, ref.value, FALSE, "void", TRUE))
    /\ UNCHANGED <<arrays, stores, pc, hasCuda, calls, statics, clock, isPython, kern,
                   launch, gpu, sig>>

\* a ValueReference to an element of any value
InitRef ==
    /\ arrays = [h \in Handles |-> NoArray]
    /\ stores = [s \in StoreIds |-> NoStore]
    /\ last = NoOp
    /\ prev = Off
    /\ pc = [h \in Handles |-> "idle"]
    /\ hasCuda = FALSE
    /\ calls = 0
    /\ statics = NoSeeds
    /\ clock = 1
    /\ isPython = FALSE
    /\ kern = NoLoop
    /\ launch = NoLaunch
    /\ gpu = NoGpu
    /\ \E v \in RefValues : ref = [NoRef EXCEPT !.value = v]
    /\ sig = NoSig

NextRef ==
    \/ \E op \in Comparisons \cup Arithmetic, isConst \in BOOLEAN, x \in RefValues :
           RefBinary(op, isConst, x)
    \/ \E op \in Arithmetic, x \in RefValues : RefCompound(op, x)
    \/ \E x \in RefValues : RefAssign(x)

SpecRef == InitRef /\ [][NextRef]_vars

\* ------------------------------------------------------ ValueReference<bool>
\* ValueReference<bool, device::CPU> refers to bit m_bit of a block of type
\* uint64_t; a block is modelled as the set of the positions of its set bits
BlockBits == 64
BitLimit == 512
Positions == 0..(BlockBits - 1)
BlockInputs == {{}, Positions, {0, BlockBits - 1}}

\* the values of the uint16_t bit given to the constructor
BitInputs == {0, 1, BlockBits - 1, BlockBits, BlockBits + 1, BitLimit - 1, BitLimit}

\* 1ull << m_bit: the block with that one bit set; a shift of a 64-bit
\* operand by 64 or more is undefined, and a build gives an empty mask or
\* takes the count modulo the width
Shifted(bit) ==
    IF bit < BlockBits THEN {{bit}} ELSE {{}, {bit % BlockBits}}

\* the condition of the assertion in the constructor
Accepted(bit) == bit >= 0 /\ bit < BitLimit

AsBool(b) == IF b THEN "true" ELSE "false"

\* ValueReference<bool, d>(uint64_t *val, uint16_t bit)
ConstructBool(bit) ==
    /\ ref' = [ref EXCEPT !.bit = IF Accepted(bit) THEN bit ELSE -1, !.was = ref.block]
    /\ Record(ElementOp("ValueReference", 0, bit, 0, FALSE, "", Accepted(bit)))
    /\ UNCHANGED <<arrays, stores, pc, hasCuda, calls, statics, clock, isPython, kern,
                   launch, gpu, sig>>

\* set(value) on the host
SetBit(value) ==
    /\ ref.bit >= 0
    /\ \E mask \in Shifted(ref.bit) :
           ref' = [ref EXCEPT !.block = IF value THEN @ \cup mask ELSE @ \ mask,
                              !.was = ref.block]
    /\ Record(ElementOp("set", 0, ref.bit, 0, value, AsBool(value), TRUE))
    /\ UNCHANGED <<arrays, stores, pc, hasCuda, calls, statics, clock, isPython, kern,
                   launch, gpu, sig>>

\* get() on the host
GetBit ==
    /\ ref.bit >= 0
    /\ \E mask \in Shifted(ref.bit) :
           Record(ElementOp("get", 0, ref.bit, 0, FALSE, AsBool(ref.block \cap mask # {}), TRUE))
    /\ UNCHANGED <<arrays, stores, pc, hasCuda, calls, statics, clock, isPython, kern,
                   launch, gpu, ref, sig>>

\* a block of any of the input values, no reference to it yet
InitBit ==
    /\ arrays = [h \in Handles |-> NoArray]
    /\ stores = [s \in StoreIds |-> NoStore]
    /\ last = NoOp
    /\ prev = NoOp
    /\ pc = [h \in Handles |-> "idle"]
    /\ hasCuda = FALSE
    /\ calls = 0
    /\ statics = NoSeeds
    /\ clock = 1
    /\ isPython = FALSE
    /\ kern = NoLoop
    /\ launch = NoLaunch
    /\ gpu = NoGpu
    /\ \E b \in BlockInputs : ref = [NoRef EXCEPT !.block = b, !.was = b]
    /\ sig = NoSig

NextBit ==
    \/ \E bit \in BitInputs : ConstructBool(bit)
    \/ \E value \in BOOLEAN : SetBit(value)
    \/ GetBit

SpecBit == InitBit /\ [][NextBit]_vars

\* ------------------------------------------------- offsets of the data start
\* the number of _offsetData / _resetOffset calls of one run, and the
\* largest number of elements an offset is made by
MaxOffsetCalls == 3
MaxOffset == 2

\* Array::_offsetData(elems): recorded with the data start and the flags of
\* the stride before the call
_offsetData(a, elems) ==
    /\ calls < MaxOffsetCalls
    /\ arrays[a].live /\ arrays[a].ref # NullRef
    /\ LET x == arrays[a]
       IN  /\ arrays' = [arrays EXCEPT ![a] = [x EXCEPT !.start = @ + elems,
                                                        !.trivial = FALSE,
                                                        !.contiguous = FALSE]]
           /\ Record(ElementOp("_offsetData", a, elems, x.start, x.trivial,
                               AsBool(x.contiguous), TRUE))
    /\ calls' = calls + 1
    /\ UNCHANGED <<stores, pc, hasCuda, statics, clock, aux>>

\* Array::_resetOffset(elems)
_resetOffset(a, elems) ==
    /\ calls < MaxOffsetCalls
    /\ arrays[a].live /\ arrays[a].ref # NullRef
    /\ LET x == arrays[a]
       IN  /\ arrays' = [arrays EXCEPT ![a] = [x EXCEPT !.start = @ - elems,
                                                        !.trivial = TRUE,
                                                        !.contiguous = TRUE]]
           /\ Record(ElementOp("_resetOffset", a, elems, x.start, x.trivial,
                               AsBool(x.contiguous), TRUE))
    /\ calls' = calls + 1
    /\ UNCHANGED <<stores, pc, hasCuda, statics, clock, aux>>

\* Arrays of any layout, and subscripts of them, are offset and reset
NextOffset ==
    \/ \E a \in Handles, n \in 1..Len(OrderInputs) : transpose(a, n)
    \/ \E h, p \in Handles, i \in 0..1 : Subscript(h, p, i)
    \/ \E a \in Handles, elems \in 0..MaxOffset : _offsetData(a, elems)
    \/ \E a \in Handles, elems \in 0..MaxOffset : _resetOffset(a, elems)

SpecOffset == InitShape /\ [][NextOffset]_vars

\* --------------------------------------------------------------- roundSigFig
\* the finite doubles given to roundSigFig: a mantissa of up to MaxMantissa
\* with either sign, times a power of ten of up to MaxExponent either way;
\* figs from -1 on; n is an int64_t, kept CountBits bits wide
MaxMantissa == 12
MaxExponent == 2
MaxFigs == 3
CountBits == 4
FigInputs == (-1)..MaxFigs

RECURSIVE Power10(_)
Power10(k) == IF k = 0 THEN 1 ELSE 10 * Power10(k - 1)

\* the decimal of mantissa m and exponent e
Decimal(m, e) == IF m = 0 THEN Zero ELSE [m |-> m, e |-> e]

\* the finite doubles given as num
NumInputs ==
    {Decimal(m, e) : m \in {-MaxMantissa, -1, 0, 1, 5, MaxMantissa},
                     e \in (-MaxExponent)..MaxExponent}

\* x > c and x < c for a decimal x and an integer c
GreaterThan(x, c) ==
    IF x.e >= 0 THEN x.m * Power10(x.e) > c ELSE x.m > c * Power10(-x.e)

LessThan(x, c) ==
    IF x.e >= 0 THEN x.m * Power10(x.e) < c ELSE x.m < c * Power10(-x.e)

Negated(x) == Decimal(-x.m, x.e)
Times(x, y) == Decimal(x.m * y.m, x.e + y.e)

\* pow10(exponent)
pow10(exponent) == Decimal(1, exponent)

\* round(num, dp) of core_math.cpp: floor of |num * 10^dp|, one more if the
\* remainder is a half or above, with the sign of num, times 10^-dp
round(num, dp) ==
    LET abs == IF num.m < 0 THEN -num.m ELSE num.m
        shift == num.e + dp
        y == IF shift >= 0 THEN abs * Power10(shift)
             ELSE LET d == Power10(-shift)
                  IN  IF 2 * (abs % d) >= d THEN (abs \div d) + 1 ELSE abs \div d
    IN  Decimal(IF num.m >= 0 THEN y ELSE -y, -dp)

\* ++n and --n of an int64_t; the loops do not read n
Counted(n) == ((n + 2 ^ (CountBits - 1)) % (2 ^ CountBits)) - 2 ^ (CountBits - 1)

SigDone == sig.pc \in {"idle", "returned", "thrown"}

\* roundSigFig(num, figs) up to its first loop
roundSigFig(num, figs) ==
    /\ SigDone
    /\ IF figs <= 0
       THEN /\ sig' = [NoSig EXCEPT !.pc = "thrown", !.num = num, !.figs = figs]
            /\ Record(Op("roundSigFig", 0, figs, "invalid_argument", FALSE))
       ELSE /\ sig' = [NoSig EXCEPT !.pc = "shrink", !.num = num, !.figs = figs,
                                    !.tmp = IF GreaterThan(num, 0) THEN num
                                            ELSE Negated(num)]
            /\ Record(Op("roundSigFig", 0, figs, "called", TRUE))
    /\ UNCHANGED <<arrays, stores, pc, hasCuda, calls, statics, clock, isPython, kern,
                   launch, gpu, ref>>

\* while (tmp > 10) { tmp /= 10; ++n; }: one test and the body or the exit
ShrinkStep ==
    /\ sig.pc = "shrink"
    /\ sig' = IF GreaterThan(sig.tmp, 10)
              THEN [sig EXCEPT !.tmp = Decimal(@.m, @.e - 1), !.n = Counted(@ + 1)]
              ELSE [sig EXCEPT !.pc = "grow"]
    /\ UNCHANGED <<arrays, stores, last, prev, pc, hasCuda, calls, statics, clock,
                   isPython, kern, launch, gpu, ref>>

\* while (tmp < 1) { tmp *= 10; --n; }: one test and the body, or the exit
\* and the return statement
GrowStep ==
    /\ sig.pc = "grow"
    /\ IF LessThan(sig.tmp, 1)
       THEN /\ sig' = [sig EXCEPT !.tmp = Decimal(@.m, @.e + 1), !.n = Counted(@ - 1)]
            /\ UNCHANGED <<last, prev>>
       ELSE /\ sig' = [sig EXCEPT
                          !.pc = "returned",
                          !.result = Times(Decimal(IF GreaterThan(sig.tmp, 0) THEN 1 ELSE -1, 0),
                                           Times(round(sig.tmp, sig.figs - 1), pow10(sig.n)))]
            /\ Record(Op("roundSigFig", 0, sig.figs, "returned", TRUE))
    /\ UNCHANGED <<arrays, stores, pc, hasCuda, calls, statics, clock, isPython, kern,
                   launch, gpu, ref>>

InitSig ==
    /\ arrays = [h \in Handles |-> NoArray]
    /\ stores = [s \in StoreIds |-> NoStore]
    /\ last = NoOp
    /\ prev = Off
    /\ pc = [h \in Handles |-> "idle"]
    /\ hasCuda = FALSE
    /\ calls = 0
    /\ statics = NoSeeds
    /\ clock = 1
    /\ AuxInit

NextSig ==
    \/ \E num \in NumInputs, figs \in FigInputs : roundSigFig(num, figs)
    \/ ShrinkStep
    \/ GrowStep

SpecSig == InitSig /\ [][NextSig]_vars

\* the thread that called roundSigFig keeps running: a loop that can take
\* its next step takes it
SpecSigFair == SpecSig /\ WF_vars(ShrinkStep) /\ WF_vars(GrowStep)

\* ---------------------------------------------------------------- claims
\* a value no operation of the model stores: what a later mutation writes
Mark == MaxVal + 2

\* every mutation made through the view x is read back through the view y
Visible(st, x, y) ==
    /\ x.ref # NullRef /\ y.ref # NullRef
    /\ st[x.ref].status = "live" /\ st[y.ref].status = "live"
    /\ ExtentSize(x.extent) = ExtentSize(y.extent)
    /\ \A k \in 0..(ExtentSize(x.extent) - 1) :
           ReadAt(WriteAt(st, x, k, Mark), y, k) = Mark

\* C1: a storage that was allocated has been freed exactly once if no live
\* Array names it any more (the last alias was dropped) and has not been
\* freed at all while some live Array still names it.
C1_FreedOnceAtLastDrop ==
    \A s \in StoreIds :
        stores[s].status # "unused" =>
            stores[s].frees = (IF NamedBy(s) = {} THEN 1 ELSE 0)

\* C1 witness: the source and its aliases are all dropped, the last two
\* operations were drops, and the one storage ever allocated is freed once
C1_Witness ==
    /\ last.op = "Destroy" /\ prev.op = "Destroy"
    /\ \A h \in Handles : ~arrays[h].live
    /\ stores[1].frees = 1
    /\ \A s \in StoreIds \ {1} : stores[s].status = "unused"

Window(x) == {Addr(x, k) : k \in 0..(ExtentSize(x.extent) - 1)}

\* from st1 to st2 no counter moved, nothing was allocated or freed, and
\* only the cells addrs of storage s may have changed
OnlyCellsChanged(st1, st2, s, addrs) ==
    \A t \in StoreIds :
        /\ st2[t].refs = st1[t].refs
        /\ st2[t].status = st1[t].status
        /\ st2[t].frees = st1[t].frees
        /\ DOMAIN st2[t].data = DOMAIN st1[t].data
        /\ \A i \in DOMAIN st1[t].data :
               (t # s \/ (i - 1) \notin addrs) => st2[t].data[i] = st1[t].data[i]

C6_ChildAssignInPlace ==
    [][(last'.op = "Assign" /\ arrays[last'.h].isChild)
        => LET x == arrays[last'.h]
               o == arrays[last'.a]
           IN  /\ arrays' = arrays
               /\ IF x.extent = o.extent
                  THEN /\ last'.ok
                       /\ OnlyCellsChanged(stores, stores', x.ref, Window(x))
                       /\ \A k \in 0..(ExtentSize(x.extent) - 1) :
                              ReadAt(stores', x, k) = ReadAt(stores, o, k)
                  ELSE /\ ~last'.ok
                       /\ stores' = stores]_vars

\* C6 witness: a child took the written data of a right-hand side that
\* lives in another storage
C6_Witness ==
    /\ last.op = "Assign" /\ last.kind = "child" /\ last.ok
    /\ arrays[last.h].ref # arrays[last.a].ref
    /\ ReadAt(stores, arrays[last.h], 0) \in Values

\* C7: operator=(T val) on a child that is not scalar throws and changes
\* nothing; on a scalar child it writes val into the child's element of the
\* parent's storage and changes no counter and no binding.
C7_ScalarToChild ==
    [][(last'.op = "AssignScalar" /\ arrays[last'.h].isChild)
        => LET x == arrays[last'.h]
           IN  IF ~x.isScalar
               THEN /\ ~last'.ok
                    /\ arrays' = arrays
                    /\ stores' = stores
               ELSE /\ last'.ok
                    /\ arrays' = arrays
                    /\ OnlyCellsChanged(stores, stores', x.ref, {x.start})
                    /\ ReadAt(stores', x, 0) = last'.a]_vars

\* C7 witness: a scalar assignment to a non-scalar child was rejected
C7_Witness ==
    /\ last.op = "AssignScalar" /\ ~last.ok
    /\ arrays[last.h].isChild /\ ~arrays[last.h].isScalar

\* C3: when several threads drop aliases of one storage concurrently, under
\* every interleaving of the statements of decrement the storage is freed at
\* most once, only with the counter at zero, and exactly once when every
\* thread has finished.
C3_FreedOnceByOneThread ==
    \A s \in StoreIds :
        stores[s].status # "unused" =>
            /\ stores[s].frees <= 1
            /\ stores[s].frees >= 1 => stores[s].refs = 0
            /\ (\A t \in Handles : pc[t] = "done") => stores[s].frees = 1

\* C8: every live Array with isScalar set has an extent of at most one
\* dimension and of size 1.
C8_ScalarHasUnitExtent ==
    \A h \in Handles :
        (arrays[h].live /\ arrays[h].isScalar) =>
            /\ Len(arrays[h].extent) \in {0, 1}
            /\ ExtentSize(arrays[h].extent) = 1

\* the binary dispatchers, and those of them that return a new Array
BinaryOps ==
    {"LegacyApplyBinaryOp", "LegacyApplyBinaryOpReturning",
     "CoreApplyBinaryOp", "CoreApplyBinaryOpReturning"}

ReturningBinaryOps == {"LegacyApplyBinaryOpReturning", "CoreApplyBinaryOpReturning"}

\* C9: a binary element-wise operation, returning or storing into a
\* destination, called with permitInvalid left at its default, throws for
\* the shapes of its operands exactly when their extents differ and neither
\* is scalar. (No binary dispatcher changes the extent or the scalar flag of
\* an operand, so the operands are read after the call.)
C9_ShapeMismatchExactly ==
    (last.op \in BinaryOps /\ ~last.p) =>
        ((last.kind = "shape")
            <=> (/\ ~arrays[last.a].isScalar
                 /\ ~arrays[last.b].isScalar
                 /\ arrays[last.a].extent # arrays[last.b].extent))

\* C10: the Array a returning binary operation allocates, called with
\* permitInvalid left at its default, has the extent of the operand that is
\* not scalar, and the common extent of two operands that are both not
\* scalar.
C10_ResultExtent ==
    (last.op \in ReturningBinaryOps /\ ~last.p /\ last.ok) =>
        LET a == arrays[last.a]
            b == arrays[last.b]
            r == arrays[last.h]
        IN  /\ (a.isScalar /\ ~b.isScalar) => r.extent = b.extent
            /\ (~a.isScalar /\ b.isScalar) => r.extent = a.extent
            /\ (~a.isScalar /\ ~b.isScalar) => (r.extent = a.extent /\ r.extent = b.extent)

\* C11: the Array a returning binary operation allocates has, of the two
\* operand dtypes, the one with the larger ordinal, and is on the GPU exactly
\* when one of the operands is; its storage is allocated with that dtype on
\* that device, and the call leaves both operands as they were.
C11_ResultPromoted ==
    [][(last'.op \in ReturningBinaryOps /\ calls' # calls /\ last'.ok)
        => LET a == arrays[last'.a]
               b == arrays[last'.b]
               r == arrays'[last'.h]
           IN  /\ r.dtype \in {a.dtype, b.dtype}
               /\ DtypeOrd(r.dtype) >= DtypeOrd(a.dtype)
               /\ DtypeOrd(r.dtype) >= DtypeOrd(b.dtype)
               /\ r.location = (IF "GPU" \in {a.location, b.location} THEN "GPU" ELSE "CPU")
               /\ stores'[r.ref].dtype = r.dtype
               /\ stores'[r.ref].location = r.location
               /\ arrays'[last'.a] = a
               /\ arrays'[last'.b] = b]_vars

\* C11 witness: an INT64 Array on the CPU and a FLOAT64 Array on the GPU
\* gave a FLOAT64 result on the GPU, the wider operand being the second
C11_Witness ==
    /\ last.op \in ReturningBinaryOps /\ last.ok
    /\ arrays[last.a].dtype = "INT64" /\ arrays[last.a].location = "CPU"
    /\ arrays[last.b].dtype = "FLOAT64" /\ arrays[last.b].location = "GPU"
    /\ arrays[last.h].dtype = "FLOAT64" /\ arrays[last.h].location = "GPU"

\* C12: every element i of an evaluated node op(a, b) is op(a[i], b[i]), a
\* scalar operand standing for its value at every i; each lane of packet(i)
\* is scalar of the lane's index; and the node with the operands swapped
\* evaluates to the same elements (|, & and ^ are commutative).
C12_EvalIsElementwise ==
    last.op = "eval" =>
        LET a == arrays[last.a]
            b == arrays[last.b]
            r == arrays[last.h]
            n == ExtentSize(r.extent)
            at(x, i) == stores[x.ref].data[IF x.isScalar THEN 1 ELSE i + 1]
            direct(l, m) == IF last.kind = "BitwiseOr" THEN Bitwise("or", l, m, LaneBits)
                            ELSE IF last.kind = "BitwiseAnd" THEN Bitwise("and", l, m, LaneBits)
                            ELSE Bitwise("xor", l, m, LaneBits)
        IN  /\ \A i \in 0..(n - 1) : at(r, i) = direct(at(a, i), at(b, i))
            /\ \A i \in 0..(n - PacketLanes), j \in 1..PacketLanes :
                   packet(stores, last.kind, a, b, i)[j] = scalar(stores, last.kind, a, b, i + j - 1)
            /\ stores[r.ref].data = assign(stores, last.kind, b, a, n)

\* C12 witness: a ^ b was evaluated for an array a of MapLen elements and a
\* scalar b, and the last element (past the whole packets) came out as 0
\* from two set bits
C12_Witness ==
    /\ last.op = "eval" /\ last.kind = "BitwiseXor"
    /\ ~arrays[last.a].isScalar /\ arrays[last.b].isScalar
    /\ arrays[last.h].extent = <<MapLen>>
    /\ stores[arrays[last.a].ref].data[MapLen] = 1
    /\ stores[arrays[last.b].ref].data[1] = 1
    /\ stores[arrays[last.h].ref].data[MapLen] = 0

\* the elements read through the view x, in logical order
Elements(st, x) == [k \in 1..ExtentSize(x.extent) |-> ReadAt(st, x, k - 1)]

\* C13: a clone b of a names a storage no other Array names, a.isSame(b) is
\* false, b's stride is the row-major stride of its extent with both flags
\* set whatever a's layout was, and b holds a's elements in a's order; a
\* write through either of them at any position leaves every element of
\* the other as it was, and every later write through a subscript changes
\* no element of an Array on another storage.
C13_CloneIsIndependent ==
    [][/\ (last'.op = "clone") =>
            LET a == arrays'[last'.a]
                b == arrays'[last'.h]
                n == ExtentSize(a.extent)
            IN  /\ a = arrays[last'.a]
                /\ Elements(stores', a) = Elements(stores, a)
                /\ b.ref # a.ref
                /\ stores[b.ref].status = "unused"
                /\ {h \in Handles : arrays'[h].live /\ arrays'[h].ref = b.ref} = {last'.h}
                /\ ~isSame(a, b)
                /\ b.extent = a.extent
                /\ b.stride = FromExtent(b.extent)
                /\ b.trivial /\ b.contiguous
                /\ Elements(stores', b) = Elements(stores, a)
                /\ \A k \in 0..(n - 1) :
                       /\ Elements(WriteAt(stores', b, k, Mark), a) = Elements(stores', a)
                       /\ Elements(WriteAt(stores', a, k, Mark), b) = Elements(stores', b)
       /\ (last'.op = "AssignScalar" /\ last'.ok /\ arrays[last'.h].isChild) =>
            \A g \in Handles :
                (arrays[g].live /\ arrays[g].ref # NullRef
                   /\ arrays[g].ref # arrays[last'.h].ref) =>
                    Elements(stores', arrays'[g]) = Elements(stores, arrays[g])
      ]_vars

\* C13 witness: an element of a clone was overwritten through a subscript
\* of the clone, and the Array it was cloned from still holds the elements
\* it started with
C13_Witness ==
    /\ last.op = "AssignScalar" /\ last.ok
    /\ \E a, b \in Handles :
           /\ arrays[a].live /\ arrays[b].live /\ arrays[last.h].live
           /\ ~arrays[a].isChild /\ ~arrays[b].isChild /\ arrays[last.h].isChild
           /\ arrays[b].ref = arrays[last.h].ref
           /\ arrays[a].ref # arrays[b].ref
           /\ Elements(stores, arrays[a]) = Ramp(ExtentSize(arrays[a].extent))
           /\ Elements(stores, arrays[b]) # Ramp(ExtentSize(arrays[b].extent))
           /\ \E k \in 1..ExtentSize(arrays[b].extent) :
                  Elements(stores, arrays[b])[k] \in Values

\* the shape e is the extent x, AUTO standing for any dimension
Matches(e, x) ==
    /\ Len(e) = Len(x)
    /\ \A i \in 1..Len(e) : e[i] # AUTO => x[i] = e[i]

\* no shape of n elements matches e: e has no AUTO and another product, or
\* one AUTO and a product of the other dimensions that does not divide n
ProductDiffers(e, n) ==
    \/ Autos(e) = {} /\ Prod(e) # n
    \/ Cardinality(Autos(e)) = 1 /\ n % Given(e) # 0

\* C14: after a successful a.reshape(e), e having at most one AUTO, a's
\* extent is e with the AUTO worked out, a holds as many elements as before
\* and the same elements in the same order; a reshape whose dimension
\* product differs from a's size fails and changes nothing; a.reshaped(e)
\* leaves a's extent, stride and storage as they were and, when it
\* succeeds, returns such an Array on a storage of its own.
C14_ReshapeKeepsSize ==
    [][/\ (last'.op = "reshape") =>
            LET e == ReshapeInputs[last'.b]
                x == arrays[last'.h]
                y == arrays'[last'.h]
            IN  /\ last'.ok =>
                       /\ Cardinality(Autos(e)) <= 1
                       /\ Matches(e, y.extent)
                       /\ ExtentSize(y.extent) = ExtentSize(x.extent)
                       /\ Elements(stores', y) = Elements(stores, x)
                /\ ProductDiffers(e, ExtentSize(x.extent)) => ~last'.ok
                /\ ~last'.ok => (arrays' = arrays /\ stores' = stores)
       /\ (last'.op = "reshaped") =>
            LET e == ReshapeInputs[last'.b]
                x == arrays[last'.a]
                y == arrays'[last'.h]
            IN  /\ arrays'[last'.a] = x
                /\ stores'[x.ref] = stores[x.ref]
                /\ last'.ok =>
                       /\ Cardinality(Autos(e)) <= 1
                       /\ Matches(e, y.extent)
                       /\ ExtentSize(y.extent) = ExtentSize(x.extent)
                       /\ y.ref # x.ref
                       /\ stores[y.ref].status = "unused"
                       /\ Elements(stores', y) = Elements(stores, x)
                /\ ProductDiffers(e, ExtentSize(x.extent)) => ~last'.ok
                /\ ~last'.ok => arrays' = arrays
      ]_vars

\* C14 witness: an Array of six elements was reshaped in place to a shape
\* with an AUTO dimension, after a reshaped() copy of it was made
C14_Witness ==
    /\ prev.op = "reshaped" /\ prev.ok
    /\ last.op = "reshape" /\ last.ok
    /\ last.h = prev.a
    /\ Autos(ReshapeInputs[last.b]) # {}
    /\ arrays[last.h].extent # arrays[prev.h].extent
    /\ ExtentSize(arrays[last.h].extent) = ExtentSize(arrays[prev.h].extent)
    /\ Elements(stores, arrays[last.h]) = Elements(stores, arrays[prev.h])

\* C15: transposing an Array with the default order and transposing the
\* outcome with the default order again gives the extent, the stride and
\* the element at every multi-index of the Array before the first of the
\* two (so two such transposes of a newly filled Array, with no call in
\* between, leave it with its first extent, stride and contents);
\* transposed() returns an Array on a storage of its own and leaves
\* the extent, the stride and the storage of its receiver as they were.
C15_TransposeTwice ==
    [][/\ (last'.op = "transpose" /\ last'.ok /\ OrderInputs[last'.b] = <<>>) =>
            LET x == arrays[last'.h]
                once == arrays'[last'.h]
                twice == Transposed(once, <<>>)
            IN  /\ twice.extent = x.extent
                /\ twice.stride = x.stride
                /\ Elements(stores', twice) = Elements(stores, x)
                /\ (last.op = "transpose" /\ last.ok /\ OrderInputs[last.b] = <<>>
                      /\ last.h = last'.h /\ ~x.isChild /\ calls = 1) =>
                       /\ once.extent \in ShapeExtents
                       /\ once.stride = FromExtent(once.extent)
                       /\ Elements(stores', once) = Ramp(ExtentSize(once.extent))
       /\ (last'.op = "transposed") =>
            LET x == arrays[last'.a]
            IN  /\ arrays'[last'.a] = x
                /\ stores'[x.ref] = stores[x.ref]
                /\ last'.ok =>
                       /\ arrays'[last'.h].ref # x.ref
                       /\ stores[arrays'[last'.h].ref].status = "unused"
                       /\ arrays'[last'.h].extent = Transposed(x, OrderInputs[last'.b]).extent
      ]_vars

\* C15 witness: an Array of two rows and three columns was transposed
\* twice in a row with the default order
C15_Witness ==
    /\ prev.op = "transpose" /\ prev.ok /\ OrderInputs[prev.b] = <<>>
    /\ last.op = "transpose" /\ last.ok /\ OrderInputs[last.b] = <<>>
    /\ last.h = prev.h
    /\ arrays[last.h].extent = <<2, 3>>
    /\ arrays[last.h].stride = <<3, 1>>
    /\ Elements(stores, arrays[last.h]) = Ramp(2 * 3)

\* the calls that fill an Array with random values
FillOps == {"fillRandom", "filledRandom"}

\* C16: over any sequence of fillRandom calls, a call with a seed other
\* than -1 hands that seed to the generator, the first call with the
\* default seed hands it the reading of the clock, and a call with the
\* default seed that directly follows a call with the default seed hands it
\* the seed that call used.
C16_SeedSticky ==
    [][(last'.op \in FillOps) =>
          /\ last'.a # Unsigned(-1) => last'.b = last'.a
          /\ (/\ last'.a = Unsigned(-1)
              /\ \/ calls = 0
                 \/ calls = 1 /\ last.a # Unsigned(-1)
                 \/ calls = 2 /\ last.a # Unsigned(-1) /\ prev.a # Unsigned(-1))
                => last'.b = Unsigned(clock)
          /\ (last'.a = Unsigned(-1) /\ last.op \in FillOps /\ last.a = Unsigned(-1))
                => last'.b = last.b
      ]_vars

\* the sources of the call recorded in o
SourcesOf(o) == {o.a} \cup (IF o.b = 0 THEN {} ELSE {o.b})

C18_ScalarOnHost ==
    (last.op = "ConstructScalar") =>
        /\ last.ok
        /\ arrays[last.h].live
        /\ arrays[last.h].ref # NullRef
        /\ arrays[last.h].location = "CPU"
        /\ arrays[last.h].isScalar
        /\ arrays[last.h].extent = <<1>>
        /\ stores[arrays[last.h].ref].location = "CPU"
        /\ stores[arrays[last.h].ref].refs = 1
        /\ Len(stores[arrays[last.h].ref].data) = 1
        /\ stores[arrays[last.h].ref].data[1] \in Values

\* the element-wise dispatchers
ElementwiseOps ==
    {"LegacyApplyUnaryOp", "LegacyApplyUnaryOpReturning"} \cup BinaryOps

\* C19: after an element-wise operation, called with permitInvalid left at
\* its default, has returned with its result in D, D.isScalar is true
\* exactly if every source is scalar; a destination that was scalar before
\* the call is not scalar after it when a source is not scalar.
C19_ScalarIffSources ==
    [][(last'.op \in ElementwiseOps /\ ~last'.p /\ last'.ok /\ last'.kind = "ok") =>
          (arrays'[last'.h].isScalar <=> \A x \in SourcesOf(last') : arrays[x].isScalar)
      ]_vars

\* the dispatchers that store into a destination handed to them
InPlaceOps == {"LegacyApplyUnaryOp", "LegacyApplyBinaryOp", "CoreApplyBinaryOp"}

\* the sources of the call recorded in o that are not scalars
ArraySources(o) == {x \in SourcesOf(o) : ~arrays[x].isScalar}

\* C20: a store-into-destination dispatcher, called with permitInvalid left
\* at its default, runs its flat-index kernel and hands the destination D
\* the stride of a source only when D and every array source are trivial
\* and contiguous or all of them have one stride; when D is not trivial and
\* contiguous and its stride differs from a source's, D keeps its stride
\* and its flags.
C20_TrivialPathOnly ==
    [][(last'.op \in InPlaceOps /\ ~last'.p /\ last'.ok /\ last'.kind = "ok") =>
          LET d == arrays[last'.h]
              allPlain == Plain(d) /\ \A x \in ArraySources(last') : Plain(arrays[x])
              oneStride == \A x \in ArraySources(last') : arrays[x].stride = d.stride
          IN  ~(allPlain \/ oneStride) =>
                  /\ arrays'[last'.h].stride = d.stride
                  /\ arrays'[last'.h].trivial = d.trivial
                  /\ arrays'[last'.h].contiguous = d.contiguous
      ]_vars

\* the call of mapKernel that returned last went through its loop
LoopReturned == last.op = "mapKernel" /\ last.ok /\ kern.pack # <<>> /\ kern.phase = "idle"

\* what a mapKernel call that has returned leaves: the destination holds
\* what the serial loop computes from the storages as they were on entry,
\* every piece of [0, N) was processed exactly once, and no thread is still
\* at work
LoopResult ==
    LET pack == kern.pack
        d == arrays[pack[Len(pack)]]
        end == ExtentSize(d.extent)
    IN  /\ stores = Loop(kern.before, Sources(pack), d, 0, end)
        /\ \A p \in Pieces(end) : kern.visits[p] = 1
        /\ Joined(kern)

\* while the loop runs, a piece is processed at most once and only the
\* storage of the destination is written, inside the pieces taken so far
LoopFrame ==
    kern.pack # <<>> =>
        LET pack == kern.pack
            d == arrays[pack[Len(pack)]]
            end == ExtentSize(d.extent)
        IN  /\ \A p \in Pieces(end) : kern.visits[p] <= 1
            /\ \A s \in StoreIds : s # d.ref => stores[s] = kern.before[s]
            /\ \A p \in kern.todo :
                   \A i \in (p[1] + 1)..p[2] :
                       stores[d.ref].data[d.start + i] = kern.before[d.ref].data[d.start + i]

\* C21 as written: the loop is serial below 2500 elements and parallel from
\* 2500 on, and either way the destination ends as the serial loop leaves
\* it, each index processed once, the call returning after every thread
C21_LoopSplitsFrom2500 ==
    LoopReturned =>
        /\ (last.kind = "parallel") =
               (ExtentSize(arrays[last.h].extent) >= ParallelFrom)
        /\ last.kind \in {"serial", "parallel"}
        /\ LoopResult

\* C21: in a build without LIBRAPID_PYTHON the loop is serial below 2500
\* elements and parallel from 2500 on, in a build with LIBRAPID_PYTHON it is
\* serial for every element count; under every interleaving of the threads
\* each index is processed exactly once and only the destination is written,
\* the destination ends as the serial loop leaves it (also where it is one
\* of the sources), and the call returns after every thread has finished
C21_LoopEqualsSerial ==
    /\ LoopFrame
    /\ LoopReturned =>
           /\ (last.kind = "parallel") =
                  (~isPython /\ ExtentSize(arrays[last.h].extent) >= ParallelFrom)
           /\ last.kind \in {"serial", "parallel"}
           /\ LoopResult

\* a parallel loop whose destination is one of its sources has returned
C21_Witness ==
    /\ LoopReturned
    /\ last.kind = "parallel"
    /\ arrays[last.a].ref = arrays[last.h].ref
    /\ last.b # 0
    /\ stores # kern.before

\* the kernel launched last has run every block of its grid
LaunchDone == launch.blocks > 0 /\ launch.ran = 0..(launch.blocks - 1)

\* the block and grid sizes of the launch: 1 to 512 threads in a block,
\* enough threads for every element and no block without one
LaunchConfig ==
    launch.blocks > 0 =>
        /\ launch.threads \in 1..BlockThreads
        /\ (launch.n < BlockThreads) => launch.threads = launch.n /\ launch.blocks = 1
        /\ ~(launch.n < BlockThreads) => launch.threads = BlockThreads
        /\ launch.blocks * launch.threads >= launch.n
        /\ (launch.blocks - 1) * launch.threads < launch.n

\* C22: for every element count N >= 1 the launch uses one block of N
\* threads below 512 elements and ceil(N / 512) blocks of 512 threads
\* otherwise; no index from N on is stored to, no index is stored to by two
\* threads (there are as many stores as indices stored to), and once the
\* grid has run every index in [0, N) has been stored to
C22_LaunchCoversOnce ==
    /\ LaunchConfig
    /\ launch.written \subseteq 0..(launch.n - 1)
    /\ launch.count = Cardinality(launch.written)
    /\ LaunchDone => launch.written = 0..(launch.n - 1)

\* C23: the stream is created by the first initializeCudaStream and never
\* again (once streamCreated is true it stays true and no stream is
\* created), every program cache only grows, and a kernel source that has
\* been compiled is not compiled again by any later launch
C23_SingletonsMonotone ==
    /\ [](gpu.created = IF gpu.streamCreated THEN 1 ELSE 0)
    /\ [][/\ gpu.streamCreated => gpu'.streamCreated /\ gpu'.created = gpu.created
          /\ \A i \in Instantiations :
                 gpu.inst[i].kernelCache \subseteq gpu'.inst[i].kernelCache
          /\ \A s \in SourceTexts :
                 gpu.compiled[s] > 0 => gpu'.compiled[s] = gpu.compiled[s]]_vars

\* C25: the scratch region that receives the operand pointers has room for
\* the pointers copied into it, whatever the number of operands and the
\* calls before
C25_ScratchHoldsPointers == gpu.copied <= gpu.room

\* C24: a scalar constructed from a value of any kind, the name of a
\* datatype and the name of an accelerator the build has is an Array of
\* that datatype on that accelerator
C24_NamedScalar ==
    (/\ last.op = "ConstructScalarNamed"
     /\ stringToAccelerator(LocnNames[last.b]) = "GPU" => hasCuda) =>
        /\ last.ok
        /\ arrays[last.h].live
        /\ arrays[last.h].isScalar
        /\ arrays[last.h].dtype = stringToDatatype(DtypeNames[last.a])
        /\ arrays[last.h].location = stringToAccelerator(LocnNames[last.b])

\* C26: operator=(T val) on an initialised Array that is not a child takes
\* one reference off its storage, which is freed if and only if that was the
\* last one, and binds the Array to a storage that was not in use: one
\* element holding val, INT64, on the CPU, counter 1, the Array a scalar of
\* extent [1]; every other Array and every other storage stay as they were,
\* and the old storage keeps its contents while it is still referenced.
C26_ScalarAssignRebinds ==
    [][(last'.op = "AssignScalar" /\ arrays[last'.h].ref # NullRef
            /\ ~arrays[last'.h].isChild)
        => LET x == arrays[last'.h]
               y == arrays'[last'.h]
               old == stores[x.ref]
           IN  /\ last'.ok
               /\ stores[y.ref].status = "unused"
               /\ stores'[y.ref] =
                      [status |-> "live", refs |-> 1, frees |-> 0,
                       data |-> <<last'.a>>, dtype |-> "INT64", location |-> "CPU"]
               /\ y.isScalar /\ ~y.isChild /\ y.live
               /\ y.extent = <<1>> /\ y.stride = <<1>> /\ y.start = 0
               /\ y.dtype = "INT64" /\ y.location = "CPU"
               /\ \A g \in Handles : g # last'.h => arrays'[g] = arrays[g]
               /\ \A s \in StoreIds : s \notin {x.ref, y.ref} => stores'[s] = stores[s]
               /\ IF old.refs = 1
                  THEN /\ stores'[x.ref].status = "freed"
                       /\ stores'[x.ref].frees = old.frees + 1
                       /\ stores'[x.ref].refs = 0
                  ELSE stores'[x.ref] = [old EXCEPT !.refs = @ - 1]]_vars

\* C26 witness: an Array was made a copy of another Array and then
\* assigned a scalar: it is a scalar on a storage of its own, and the other
\* Array is again the only one naming its storage
C26_Witness ==
    /\ prev.op = "CopyConstruct" /\ prev.ok
    /\ last.op = "AssignScalar" /\ last.ok /\ last.h = prev.h
    /\ arrays[last.h].isScalar
    /\ arrays[last.h].ref # arrays[prev.a].ref
    /\ stores[arrays[prev.a].ref].status = "live"
    /\ stores[arrays[prev.a].ref].refs = 1
    /\ \E s \in StoreIds : stores[s].status = "freed"

\* the operators that store to the referenced element: assignment and the
\* compound assignments
StoringOps == {"="} \cup {op \o "=" : op \in Arithmetic}

\* C27: ref == x and ref != x, on a ValueReference that is const or not,
\* return the comparison of the referenced value (last.b) with x (last.a)
\* and leave the element as it was; the element is stored to by assignment
\* and the compound assignments only
C27_CompareReadOnly ==
    /\ last.op \in Comparisons =>
           /\ ref.value = last.b
           /\ last.kind = (IF (last.b = last.a) = (last.op = "==") THEN "true" ELSE "false")
    /\ (last.op # "none" /\ last.op \notin StoringOps) => ref.value = last.b

\* C28: for every bit index the constructor of ValueReference<bool>
\* accepts, set(v) on a host reference leaves every bit of the block other
\* than the referenced one as it was, a get() that follows returns v, and a
\* second set(v) changes nothing
C28_SetOneBit ==
    ref.bit >= 0 =>
        /\ last.op = "set" =>
               \A i \in Positions \ {ref.bit} : (i \in ref.block) <=> (i \in ref.was)
        /\ (last.op = "get" /\ prev.op = "set") => last.kind = prev.kind
        /\ (last.op = "set" /\ prev.op = "set" /\ prev.kind = last.kind) =>
               ref.block = ref.was

\* C29: _offsetData(k) moves the data start of the Array forward by k
\* elements and clears the trivial and the contiguous flag of its stride,
\* and _resetOffset(k) right after _offsetData(k) on the same Array leaves
\* the data start and both flags as they were before the offset (prev.b,
\* prev.p, prev.kind), whatever the stride was
C29_OffsetRoundTrip ==
    /\ last.op = "_offsetData" =>
           /\ arrays[last.h].start = last.b + last.a
           /\ ~arrays[last.h].trivial
           /\ ~arrays[last.h].contiguous
    /\ (last.op = "_resetOffset" /\ prev.op = "_offsetData"
            /\ last.h = prev.h /\ last.a = prev.a) =>
           /\ arrays[last.h].start = prev.b
           /\ arrays[last.h].trivial = prev.p
           /\ AsBool(arrays[last.h].contiguous) = prev.kind

\* C30: every call roundSigFig(num, figs) with a finite num and figs > 0
\* leaves both loops and returns, for num == 0 as well, and a call with
\* figs <= 0 throws invalid_argument and is never inside a loop
C30_RoundSigFigTerminates ==
    /\ [](sig.pc \in {"shrink", "grow"} => sig.figs > 0)
    /\ [](sig.pc = "thrown" => (sig.figs <= 0 /\ sig.n = 0 /\ sig.tmp = Zero))
    /\ (sig.pc \in {"shrink", "grow"}) ~> (sig.pc = "returned")

====
